---- MODULE Spec2Model ----
(***************************************************************************)
(* The CHIP-8 / SCHIP interpreter core of chip8.py (class Chip8CPU and its *)
(* CPUState), with the part of the front end that drives it, as a state    *)
(* machine.                                                                *)
(***************************************************************************)
EXTENDS Integers, Sequences, FiniteSets, TLC

VARIABLES
    state,      \* Chip8CPU.state : CPUState
    running,    \* Chip8CPU.running
    paused,     \* Chip8CPU.paused
    draw_flag,  \* Chip8CPU.draw_flag
    quirks,     \* Chip8CPU.quirks
    ncycles,    \* fetches made since the last reset (bounds the exploration)
    driver,     \* CatsChip8Emulator: clock_hz, cycles_per_frame and the frames shown
    calls,      \* the 2NNN calls that have not returned yet, innermost last
    last        \* the last call made on the engine, its inputs, result and pre-state

vars == <<state, running, paused, draw_flag, quirks, ncycles, driver, calls, last>>

----------------------------------------------------------------------------
(* Program constants *)

DISPLAY_W == 64
DISPLAY_H == 32
MEMORY_SIZE == 4096
PROGRAM_START == 512
STACK_SIZE == 16
NUM_REGISTERS == 16
NUM_KEYS == 16

FONTSET ==
    << 240, 144, 144, 144, 240,
        32,  96,  32,  32, 112,
       240,  16, 240, 128, 240,
       240,  16, 240,  16, 240,
       144, 144, 240,  16,  16,
       240, 128, 240,  16, 240,
       240, 128, 240, 144, 240,
       240,  16,  32,  64,  64,
       240, 144, 240, 144, 240,
       240, 144, 240,  16, 240,
       240, 144, 240, 144, 144,
       224, 144, 224, 144, 224,
       240, 128, 128, 128, 240,
       224, 144, 144, 144, 224,
       240, 128, 240, 128, 240,
       240, 128, 240, 128, 128 >>

----------------------------------------------------------------------------
(* Bounds of the exploration *)

MaxCycles == 5      \* fetches explored after a reset
MaxKey == 1         \* key events are delivered for keys -1 .. MaxKey and NUM_KEYS
MaxOversize == 1    \* oversized ROMs have 3585 .. 3584 + MaxOversize bytes
MaxVal == 1         \* ALU register values: 0..MaxVal, 127, 128, 255-MaxVal..255
MaxFrames == 60     \* frames shown after the speed was set
MaxBranch == 1      \* calls nested less deep than this have two targets to choose from
MaxUnderflow == 1   \* returns without a call are made down to SP = -MaxUnderflow
MaxRows == 2        \* sprites drawn have 0 .. MaxRows rows, or 15

----------------------------------------------------------------------------
(* Python's integer operators on non-negative integers *)

RECURSIVE BitAnd(_, _)
BitAnd(a, b) ==
    IF a = 0 \/ b = 0 THEN 0
    ELSE (a % 2) * (b % 2) + 2 * BitAnd(a \div 2, b \div 2)

RECURSIVE BitOr(_, _)
BitOr(a, b) ==
    IF a = 0 THEN b
    ELSE IF b = 0 THEN a
    ELSE (IF a % 2 = 1 \/ b % 2 = 1 THEN 1 ELSE 0) + 2 * BitOr(a \div 2, b \div 2)

RECURSIVE BitXor(_, _)
BitXor(a, b) ==
    IF a = 0 THEN b
    ELSE IF b = 0 THEN a
    ELSE ((a + b) % 2) + 2 * BitXor(a \div 2, b \div 2)

\* a >> k and a << k
Shr(a, k) == a \div (2 ^ k)
Shl(a, k) == a * (2 ^ k)

\* A bytearray is held as the function from the addresses of its non-zero
\* bytes to those bytes (every other byte is 0), and the display as the set of
\* its lit pixels <<row, column>> (every other pixel is 0).
Byte(m, a) == IF a \in DOMAIN m THEN m[a] ELSE 0

\* the bytearray that holds f[a] at every address a of DOMAIN f and 0 elsewhere
Bytes(f) == [a \in {b \in DOMAIN f : f[b] # 0} |-> f[a]]

\* A bytes object (a ROM image) is held as its length and the function from
\* the offsets of its non-zero bytes to those bytes.
BytesObject(seq) ==
    [len |-> Len(seq), at |-> Bytes([i \in 0 .. Len(seq) - 1 |-> seq[i + 1]])]

Pixel(d, py, px) == IF <<py, px>> \in d THEN 1 ELSE 0

\* a Python list of length n accepts the indices -n .. n-1
ListIndexOk(i, n) == i >= -n /\ i < n
ListIndex(i, n) == IF i < 0 THEN i + n ELSE i

----------------------------------------------------------------------------
(* CPUState and Chip8CPU construction *)

DefaultQuirks == [shift_vx |-> TRUE, load_store_inc |-> TRUE, jump_v0 |-> TRUE]

\* np.zeros((DISPLAY_H, DISPLAY_W))
BlankDisplay == {}

\* CPUState(): the dataclass defaults
CPUState ==
    [ memory          |-> Bytes([a \in {} |-> 0]),
      V               |-> [i \in 0 .. NUM_REGISTERS - 1 |-> 0],
      I               |-> 0,
      PC              |-> PROGRAM_START,
      SP              |-> 0,
      stack           |-> [i \in 0 .. STACK_SIZE - 1 |-> 0],
      delay_timer     |-> 0,
      sound_timer     |-> 0,
      display         |-> BlankDisplay,
      keys            |-> [k \in 0 .. NUM_KEYS - 1 |-> FALSE],
      waiting_for_key |-> FALSE,
      key_register    |-> 0,
      schip_mode      |-> FALSE,
      high_res        |-> FALSE ]

\* _load_fontset placing the font one byte higher
LoadFontset_FromOne(s) ==
    [s EXCEPT !.memory =
        Bytes([a \in DOMAIN s.memory \cup (1 .. Len(FONTSET)) |->
                  IF a >= 1 /\ a <= Len(FONTSET) THEN FONTSET[a]
                  ELSE Byte(s.memory, a)])]

\* _load_fontset: memory[i] = FONTSET[i]
LoadFontset(s) ==
    [s EXCEPT !.memory =
        Bytes([a \in DOMAIN s.memory \cup (0 .. Len(FONTSET) - 1) |->
                  IF a < Len(FONTSET) THEN FONTSET[a + 1]
                  ELSE Byte(s.memory, a)])]

\* Chip8CPU.__init__
NewCpu ==
    [ state     |-> LoadFontset(CPUState),
      running   |-> FALSE,
      paused    |-> FALSE,
      draw_flag |-> FALSE,
      quirks    |-> DefaultQuirks ]

\* reset putting the font into the memory it finds instead of a new one
ResetCpu_KeepsMemory(c) ==
    [c EXCEPT !.state = LoadFontset([CPUState EXCEPT !.memory = c.state.memory]),
              !.running = FALSE,
              !.paused = FALSE,
              !.draw_flag = TRUE]

\* Chip8CPU.reset
ResetCpu(c) ==
    [c EXCEPT !.state = LoadFontset(CPUState),
              !.running = FALSE,
              !.paused = FALSE,
              !.draw_flag = TRUE]

----------------------------------------------------------------------------
(* ROM loading and instruction fetch *)

\* load_rom copying data[i] to memory[PROGRAM_START + i] of engine r
CopyRom(r, data) ==
    [r EXCEPT
        !.state.memory =
            Bytes([a \in DOMAIN r.state.memory
                            \cup {PROGRAM_START + i : i \in DOMAIN data.at} |->
                      IF a >= PROGRAM_START /\ a < PROGRAM_START + data.len
                      THEN Byte(data.at, a - PROGRAM_START)
                      ELSE Byte(r.state.memory, a)]),
        !.running = TRUE]

\* load_rom resetting the engine before it looks at the size
LoadRom_ResetFirst(c, data) ==
    IF data.len > MEMORY_SIZE - PROGRAM_START
    THEN [cpu |-> ResetCpu(c), ret |-> FALSE]
    ELSE [cpu |-> CopyRom(ResetCpu(c), data), ret |-> TRUE]

\* load_rom refusing a ROM that fills memory exactly
LoadRom_OffByOne(c, data) ==
    IF data.len >= MEMORY_SIZE - PROGRAM_START
    THEN [cpu |-> c, ret |-> FALSE]
    ELSE [cpu |-> CopyRom(ResetCpu(c), data), ret |-> TRUE]

\* load_rom copying over the old state without a reset
LoadRom_NoReset(c, data) ==
    IF data.len > MEMORY_SIZE - PROGRAM_START
    THEN [cpu |-> c, ret |-> FALSE]
    ELSE [cpu |-> CopyRom(c, data), ret |-> TRUE]

\* Chip8CPU.load_rom: the engine after the call and the value returned
LoadRom(c, data) ==
    IF data.len > MEMORY_SIZE - PROGRAM_START
    THEN [cpu |-> c, ret |-> FALSE]
    ELSE [cpu |-> CopyRom(ResetCpu(c), data), ret |-> TRUE]

\* fetch raises IndexError when memory[PC] or memory[PC + 1] is out of range
\* (PC is never negative), before PC is advanced
FetchRaises(c) == c.state.PC + 1 >= MEMORY_SIZE

\* fetch taking the low byte first
Fetch_LittleEndian(c) ==
    LET hi == Byte(c.state.memory, c.state.PC)
        lo == Byte(c.state.memory, c.state.PC + 1)
    IN  [cpu    |-> [c EXCEPT !.state.PC = c.state.PC + 2],
         opcode |-> BitOr(Shl(lo, 8), hi)]

\* fetch advancing PC by one byte
Fetch_AdvanceOne(c) ==
    LET hi == Byte(c.state.memory, c.state.PC)
        lo == Byte(c.state.memory, c.state.PC + 1)
    IN  [cpu    |-> [c EXCEPT !.state.PC = c.state.PC + 1],
         opcode |-> BitOr(Shl(hi, 8), lo)]

\* Chip8CPU.fetch: the opcode returned and the engine with PC advanced
Fetch(c) ==
    LET hi == Byte(c.state.memory, c.state.PC)
        lo == Byte(c.state.memory, c.state.PC + 1)
    IN  [cpu    |-> [c EXCEPT !.state.PC = c.state.PC + 2],
         opcode |-> BitOr(Shl(hi, 8), lo)]

----------------------------------------------------------------------------
(* Decode and execute.  Every Exec operator gives the engine after the     *)
(* instruction and whether the instruction raised (an IndexError of a      *)
(* Python list or bytearray); when it raised, the engine holds the writes  *)
(* made before the failing statement.                                      *)

Done(c) == [cpu |-> c, raised |-> FALSE]
Raised(c) == [cpu |-> c, raised |-> TRUE]

\* 00CN rolling the rows without clearing the rows that wrap to the top
Exec0_ScrollWraps(c, opcode) ==
    LET s == c.state
        n == opcode % 16
    IN  IF opcode \div 16 = 12 /\ opcode \div 4096 = 0 THEN
            Done([c EXCEPT
                    !.state.display =
                        {<<(p[1] + n) % DISPLAY_H, p[2]>> : p \in s.display},
                    !.draw_flag = TRUE])
        ELSE Done(c)

\* 0x0XXX with a 00E0 that clears the display and leaves draw_flag alone
Exec0_ClearNoFlag(c, opcode) ==
    LET s == c.state
        n == opcode % 16
    IN  IF opcode = 224 THEN
            Done([c EXCEPT !.state.display = BlankDisplay])
        ELSE IF opcode = 238 THEN
            LET sp == s.SP - 1 IN
            IF ListIndexOk(sp, STACK_SIZE)
            THEN Done([c EXCEPT !.state.SP = sp,
                                !.state.PC = s.stack[ListIndex(sp, STACK_SIZE)]])
            ELSE Raised([c EXCEPT !.state.SP = sp])
        ELSE IF opcode = 254 THEN
            Done([c EXCEPT !.state.high_res = FALSE])
        ELSE IF opcode = 255 THEN
            Done([c EXCEPT !.state.high_res = TRUE])
        ELSE IF opcode \div 16 = 12 THEN
            LET rolled == {<<(p[1] + n) % DISPLAY_H, p[2]>> : p \in s.display}
            IN  Done([c EXCEPT
                        !.state.display = {p \in rolled : ~(p[1] < n)},
                        !.draw_flag = TRUE])
        ELSE Done(c)

\* 00E0 / 00EE / 00FE / 00FF / 00CN
Exec0(c, opcode) ==
    LET s == c.state
        n == opcode % 16
    IN  IF opcode = 224 THEN
            Done([c EXCEPT !.state.display = BlankDisplay, !.draw_flag = TRUE])
        ELSE IF opcode = 238 THEN
            LET sp == s.SP - 1 IN
            IF ListIndexOk(sp, STACK_SIZE)
            THEN Done([c EXCEPT !.state.SP = sp,
                                !.state.PC = s.stack[ListIndex(sp, STACK_SIZE)]])
            ELSE Raised([c EXCEPT !.state.SP = sp])
        ELSE IF opcode = 254 THEN
            Done([c EXCEPT !.state.high_res = FALSE])
        ELSE IF opcode = 255 THEN
            Done([c EXCEPT !.state.high_res = TRUE])
        ELSE IF opcode \div 16 = 12 THEN
            \* np.roll(display, n, axis=0), then the first n rows are zeroed
            LET rolled == {<<(p[1] + n) % DISPLAY_H, p[2]>> : p \in s.display}
            IN  Done([c EXCEPT
                        !.state.display = {p \in rolled : ~(p[1] < n)},
                        !.draw_flag = TRUE])
        ELSE Done(c)

\* 2NNN assigning PC before it is pushed
ExecCall_PushesTarget(c, nnn) ==
    LET s == c.state IN
    IF ListIndexOk(s.SP, STACK_SIZE)
    THEN Done([c EXCEPT !.state.stack[ListIndex(s.SP, STACK_SIZE)] = nnn,
                        !.state.SP = s.SP + 1,
                        !.state.PC = nnn])
    ELSE Raised(c)

\* 2NNN
ExecCall(c, nnn) ==
    LET s == c.state IN
    IF ListIndexOk(s.SP, STACK_SIZE)
    THEN Done([c EXCEPT !.state.stack[ListIndex(s.SP, STACK_SIZE)] = s.PC,
                        !.state.SP = s.SP + 1,
                        !.state.PC = nnn])
    ELSE Raised(c)

\* 8XY4 taking the carry from a sum above 256
AluAdd_CarryOffByOne(V, x, y) ==
    LET result == V[x] + V[y]
        V1 == [V EXCEPT ![x] = BitAnd(result, 255)]
    IN  [V1 EXCEPT ![15] = IF result > 256 THEN 1 ELSE 0]

\* 8XY4: ADD Vx, Vy
AluAdd(V, x, y) ==
    LET result == V[x] + V[y]
        V1 == [V EXCEPT ![x] = BitAnd(result, 255)]
    IN  [V1 EXCEPT ![15] = IF result > 255 THEN 1 ELSE 0]

\* 8XY5 without the mask of the difference
AluSub_Unmasked(V, x, y) ==
    LET V1 == [V EXCEPT ![15] = IF V[x] >= V[y] THEN 1 ELSE 0]
    IN  [V1 EXCEPT ![x] = V1[x] - V1[y]]

\* 8XY5: SUB Vx, Vy
AluSub(V, x, y) ==
    LET V1 == [V EXCEPT ![15] = IF V[x] >= V[y] THEN 1 ELSE 0]
    IN  [V1 EXCEPT ![x] = (V1[x] - V1[y]) % 256]

\* 8XY6: SHR Vx {, Vy}
AluShr(V, x, y, shift_vx) ==
    LET src == IF shift_vx THEN x ELSE y
        V1 == [V EXCEPT ![15] = BitAnd(V[src], 1)]
    IN  [V1 EXCEPT ![x] = Shr(V1[src], 1)]

\* 8XY7: SUBN Vx, Vy
AluSubn(V, x, y) ==
    LET V1 == [V EXCEPT ![15] = IF V[y] >= V[x] THEN 1 ELSE 0]
    IN  [V1 EXCEPT ![x] = (V1[y] - V1[x]) % 256]

\* 8XYE: SHL Vx {, Vy}
AluShl(V, x, y, shift_vx) ==
    LET src == IF shift_vx THEN x ELSE y
        V1 == [V EXCEPT ![15] = BitAnd(Shr(V[src], 7), 1)]
    IN  [V1 EXCEPT ![x] = BitAnd(Shl(V1[src], 1), 255)]

\* 8XYZ: the register file after the ALU operation z on registers x and y
ExecALU(V, x, y, z, shift_vx) ==
    IF z = 0 THEN [V EXCEPT ![x] = V[y]]
    ELSE IF z = 1 THEN
        LET V1 == [V EXCEPT ![x] = BitOr(V[x], V[y])] IN [V1 EXCEPT ![15] = 0]
    ELSE IF z = 2 THEN
        LET V1 == [V EXCEPT ![x] = BitAnd(V[x], V[y])] IN [V1 EXCEPT ![15] = 0]
    ELSE IF z = 3 THEN
        LET V1 == [V EXCEPT ![x] = BitXor(V[x], V[y])] IN [V1 EXCEPT ![15] = 0]
    ELSE IF z = 4 THEN AluAdd(V, x, y)
    ELSE IF z = 5 THEN AluSub(V, x, y)
    ELSE IF z = 6 THEN AluShr(V, x, y, shift_vx)
    ELSE IF z = 7 THEN AluSubn(V, x, y)
    ELSE IF z = 14 THEN AluShl(V, x, y, shift_vx)
    ELSE V

\* _draw_sprite wrapping pixels past the right and bottom edges to the
\* opposite edge instead of dropping them
DrawSprite_Wraps(c, vx, vy, height) ==
    LET s == c.state
        x == vx % DISPLAY_W
        y == vy % DISPLAY_H
        lit == {<<(y + rc[1]) % DISPLAY_H, (x + rc[2]) % DISPLAY_W>> : rc \in
                  {rc \in (0 .. height - 1) \X (0 .. 7) :
                      BitAnd(Byte(s.memory, s.I + rc[1]), Shr(128, rc[2])) # 0}}
        collision == \E p \in lit : Pixel(s.display, p[1], p[2]) # 0
        V1 == [s.V EXCEPT ![15] = IF collision THEN 1 ELSE 0]
        display1 == (s.display \ lit) \cup (lit \ s.display)
    IN  Done([c EXCEPT !.state.V = V1, !.state.display = display1,
                       !.draw_flag = TRUE])

\* _draw_sprite without the reset of V[0xF] before the rows are drawn
DrawSprite_NoFlagReset(c, vx, vy, height) ==
    LET s == c.state
        x == vx % DISPLAY_W
        y == vy % DISPLAY_H
        lit == {<<y + rc[1], x + rc[2]>> : rc \in
                  {rc \in (0 .. height - 1) \X (0 .. 7) :
                      /\ y + rc[1] < DISPLAY_H
                      /\ x + rc[2] < DISPLAY_W
                      /\ BitAnd(Byte(s.memory, s.I + rc[1]), Shr(128, rc[2])) # 0}}
        collision == \E p \in lit : Pixel(s.display, p[1], p[2]) # 0
        V1 == IF collision THEN [s.V EXCEPT ![15] = 1] ELSE s.V
        display1 == (s.display \ lit) \cup (lit \ s.display)
    IN  Done([c EXCEPT !.state.V = V1, !.state.display = display1,
                       !.draw_flag = TRUE])

\* _draw_sprite setting the pixels of the sprite instead of XORing them
DrawSprite_Or(c, vx, vy, height) ==
    LET s == c.state
        x == vx % DISPLAY_W
        y == vy % DISPLAY_H
        lit == {<<y + rc[1], x + rc[2]>> : rc \in
                  {rc \in (0 .. height - 1) \X (0 .. 7) :
                      /\ y + rc[1] < DISPLAY_H
                      /\ x + rc[2] < DISPLAY_W
                      /\ BitAnd(Byte(s.memory, s.I + rc[1]), Shr(128, rc[2])) # 0}}
        collision == \E p \in lit : Pixel(s.display, p[1], p[2]) # 0
        V1 == [s.V EXCEPT ![15] = IF collision THEN 1 ELSE 0]
    IN  Done([c EXCEPT !.state.V = V1, !.state.display = s.display \cup lit,
                       !.draw_flag = TRUE])

\* _draw_sprite(x, y, height); I is never negative
DrawSprite(c, vx, vy, height) ==
    LET s == c.state
        x == vx % DISPLAY_W
        y == vy % DISPLAY_H
        \* the sprite rows the loop reaches and reads
        RowDrawn(row) ==
            /\ row >= 0 /\ row < height
            /\ y + row < DISPLAY_H
            /\ s.I + row < MEMORY_SIZE
        \* the loop reaches a row whose sprite byte lies outside memory
        fails == \E row \in 0 .. height - 1 :
                    y + row < DISPLAY_H /\ s.I + row >= MEMORY_SIZE
        \* the pixels <<py, px>> the loop XORs with 1
        lit == {<<y + row, x + col>> : <<row, col>> \in
                  {rc \in (0 .. height - 1) \X (0 .. 7) :
                      /\ RowDrawn(rc[1])
                      /\ x + rc[2] < DISPLAY_W
                      /\ BitAnd(Byte(s.memory, s.I + rc[1]), Shr(128, rc[2])) # 0}}
        collision == \E p \in lit : Pixel(s.display, p[1], p[2]) # 0
        V1 == [s.V EXCEPT ![15] = IF collision THEN 1 ELSE 0]
        display1 == {p \in s.display \cup lit :
                        BitXor(Pixel(s.display, p[1], p[2]),
                               IF p \in lit THEN 1 ELSE 0) # 0}
        c1 == [c EXCEPT !.state.V = V1, !.state.display = display1]
    IN  IF fails THEN Raised(c1) ELSE Done([c1 EXCEPT !.draw_flag = TRUE])

\* EX9E / EXA1
ExecKey(c, x, nn) ==
    LET s == c.state
        pressed == s.keys[BitAnd(s.V[x], 15)]
    IN  IF nn = 158 THEN
            Done(IF pressed THEN [c EXCEPT !.state.PC = s.PC + 2] ELSE c)
        ELSE IF nn = 161 THEN
            Done(IF ~pressed THEN [c EXCEPT !.state.PC = s.PC + 2] ELSE c)
        ELSE Done(c)

\* FX55 adding x + 1 to I whatever quirks.load_store_inc is
ExecStore_AlwaysIncrements(c, x) ==
    LET s == c.state
        V == s.V
        c1 == [c EXCEPT !.state.memory =
                  Bytes([a \in DOMAIN s.memory
                            \cup {b \in s.I .. s.I + x : b < MEMORY_SIZE} |->
                          IF a >= s.I /\ a <= s.I + x THEN V[a - s.I]
                          ELSE Byte(s.memory, a)])]
    IN  IF s.I + x >= MEMORY_SIZE THEN Raised(c1)
        ELSE Done([c1 EXCEPT !.state.I = s.I + x + 1])

\* FX55: LD [I], Vx
\* FX55 with range(x + 2): one byte more than V0..Vx is written
ExecStore_WritesOneMore(c, x) ==
    LET s == c.state
        V == s.V
        c1 == [c EXCEPT !.state.memory =
                  Bytes([a \in DOMAIN s.memory
                            \cup {b \in s.I .. s.I + x + 1 : b < MEMORY_SIZE} |->
                          IF a >= s.I /\ a <= s.I + x THEN V[a - s.I]
                          ELSE IF a = s.I + x + 1 THEN V[0] + 1
                          ELSE Byte(s.memory, a)])]
    IN  IF s.I + x >= MEMORY_SIZE THEN Raised(c1)
        ELSE IF c.quirks.load_store_inc
             THEN Done([c1 EXCEPT !.state.I = s.I + x + 1])
             ELSE Done(c1)

ExecStore(c, x) ==
    LET s == c.state
        V == s.V
        c1 == [c EXCEPT !.state.memory =
                  Bytes([a \in DOMAIN s.memory
                            \cup {b \in s.I .. s.I + x : b < MEMORY_SIZE} |->
                          IF a >= s.I /\ a <= s.I + x THEN V[a - s.I]
                          ELSE Byte(s.memory, a)])]
    IN  IF s.I + x >= MEMORY_SIZE THEN Raised(c1)
        ELSE IF c.quirks.load_store_inc
             THEN Done([c1 EXCEPT !.state.I = s.I + x + 1])
             ELSE Done(c1)

\* FX65: LD Vx, [I]
ExecLoad(c, x) ==
    LET s == c.state
        V == s.V
        c1 == [c EXCEPT !.state.V =
                  [i \in 0 .. NUM_REGISTERS - 1 |->
                      IF i <= x /\ s.I + i < MEMORY_SIZE
                      THEN Byte(s.memory, s.I + i) ELSE V[i]]]
    IN  IF s.I + x >= MEMORY_SIZE THEN Raised(c1)
        ELSE IF c.quirks.load_store_inc
             THEN Done([c1 EXCEPT !.state.I = s.I + x + 1])
             ELSE Done(c1)

\* FXNN
ExecF(c, x, nn) ==
    LET s == c.state
        V == s.V
    IN  IF nn = 7 THEN Done([c EXCEPT !.state.V[x] = s.delay_timer])
        ELSE IF nn = 10 THEN
            Done([c EXCEPT !.state.waiting_for_key = TRUE,
                           !.state.key_register = x])
        ELSE IF nn = 21 THEN Done([c EXCEPT !.state.delay_timer = V[x]])
        ELSE IF nn = 24 THEN Done([c EXCEPT !.state.sound_timer = V[x]])
        ELSE IF nn = 30 THEN Done([c EXCEPT !.state.I = BitAnd(s.I + V[x], 4095)])
        ELSE IF nn = 41 THEN Done([c EXCEPT !.state.I = BitAnd(V[x], 15) * 5])
        ELSE IF nn = 48 THEN Done([c EXCEPT !.state.I = BitAnd(V[x], 15) * 10 + 80])
        ELSE IF nn = 51 THEN
            LET value == V[x]
                digit(k) == IF k = 0 THEN value \div 100
                            ELSE IF k = 1 THEN (value \div 10) % 10
                            ELSE value % 10
                c1 == [c EXCEPT !.state.memory =
                          Bytes([a \in DOMAIN s.memory
                                    \cup {b \in s.I .. s.I + 2 : b < MEMORY_SIZE} |->
                                  IF a >= s.I /\ a <= s.I + 2 THEN digit(a - s.I)
                                  ELSE Byte(s.memory, a)])]
            IN  IF s.I + 2 >= MEMORY_SIZE THEN Raised(c1) ELSE Done(c1)
        ELSE IF nn = 85 THEN ExecStore(c, x)
        ELSE IF nn = 101 THEN ExecLoad(c, x)
        ELSE Done(c)

\* BNNN adding V[x] under quirks.jump_v0 and V[0] without it
ExecJump_QuirkSwapped(c, nnn, x) ==
    Done([c EXCEPT !.state.PC =
             IF c.quirks.jump_v0 THEN nnn + c.state.V[x] ELSE nnn + c.state.V[0]])

\* BNNN: JP V0, addr
ExecJump(c, nnn, x) ==
    Done([c EXCEPT !.state.PC =
             IF c.quirks.jump_v0 THEN nnn + c.state.V[0] ELSE nnn + c.state.V[x]])

\* CXNN storing the random byte without the mask nn
ExecRandom_Unmasked(c, x, nn, rnd) == Done([c EXCEPT !.state.V[x] = rnd])

\* CXNN: RND Vx, byte; rnd is the value random.randint(0, 255) returns
ExecRandom(c, x, nn, rnd) == Done([c EXCEPT !.state.V[x] = BitAnd(rnd, nn)])

\* Chip8CPU.execute(opcode); rnd is the value random.randint(0, 255) returns
Execute(c, opcode, rnd) ==
    LET nnn == opcode % 4096
        nn  == opcode % 256
        n   == opcode % 16
        x   == (opcode \div 256) % 16
        y   == (opcode \div 16) % 16
        op  == (opcode \div 4096) % 16
        s   == c.state
        V   == s.V
        skip == [c EXCEPT !.state.PC = s.PC + 2]
    IN  IF op = 0 THEN Exec0(c, opcode)
        ELSE IF op = 1 THEN Done([c EXCEPT !.state.PC = nnn])
        ELSE IF op = 2 THEN ExecCall(c, nnn)
        ELSE IF op = 3 THEN Done(IF V[x] = nn THEN skip ELSE c)
        ELSE IF op = 4 THEN Done(IF V[x] # nn THEN skip ELSE c)
        ELSE IF op = 5 THEN Done(IF V[x] = V[y] THEN skip ELSE c)
        ELSE IF op = 6 THEN Done([c EXCEPT !.state.V[x] = nn])
        ELSE IF op = 7 THEN Done([c EXCEPT !.state.V[x] = BitAnd(V[x] + nn, 255)])
        ELSE IF op = 8 THEN
            Done([c EXCEPT !.state.V = ExecALU(V, x, y, n, c.quirks.shift_vx)])
        ELSE IF op = 9 THEN Done(IF V[x] # V[y] THEN skip ELSE c)
        ELSE IF op = 10 THEN Done([c EXCEPT !.state.I = nnn])
        ELSE IF op = 11 THEN ExecJump(c, nnn, x)
        ELSE IF op = 12 THEN ExecRandom(c, x, nn, rnd)
        ELSE IF op = 13 THEN DrawSprite(c, V[x], V[y], n)
        ELSE IF op = 14 THEN ExecKey(c, x, nn)
        ELSE ExecF(c, x, nn)

----------------------------------------------------------------------------
(* disassemble *)

\* format(d, "X") of one hex digit
HexDigit(d) ==
    <<"0", "1", "2", "3", "4", "5", "6", "7",
      "8", "9", "A", "B", "C", "D", "E", "F">>[d + 1]

\* f"{v:02X}", f"{v:03X}" and f"{v:04X}" of values that fit the width
Hex2(v) == HexDigit((v \div 16) % 16) \o HexDigit(v % 16)
Hex3(v) == HexDigit((v \div 256) % 16) \o Hex2(v % 256)
Hex4(v) == HexDigit((v \div 4096) % 16) \o Hex3(v % 4096)

\* f"{n}" of a nibble
Decimal(n) == IF n < 10 THEN HexDigit(n) ELSE "1" \o HexDigit(n - 10)

\* ops.get(n, '???') of the 8XYN branch
AluMnemonic(n) ==
    IF n = 0 THEN "LD" ELSE IF n = 1 THEN "OR" ELSE IF n = 2 THEN "AND"
    ELSE IF n = 3 THEN "XOR" ELSE IF n = 4 THEN "ADD" ELSE IF n = 5 THEN "SUB"
    ELSE IF n = 6 THEN "SHR" ELSE IF n = 7 THEN "SUBN"
    ELSE IF n = 14 THEN "SHL" ELSE "???"

\* fops.get(nn, f"??? ${nn:02X}").replace("Vx", f"V{x:X}") of the FXNN branch
MiscMnemonic(x, nn) ==
    LET vx == "V" \o HexDigit(x) IN
    IF nn = 7 THEN "LD " \o vx \o ", DT"
    ELSE IF nn = 10 THEN "LD " \o vx \o ", K"
    ELSE IF nn = 21 THEN "LD DT, " \o vx
    ELSE IF nn = 24 THEN "LD ST, " \o vx
    ELSE IF nn = 30 THEN "ADD I, " \o vx
    ELSE IF nn = 41 THEN "LD F, " \o vx
    ELSE IF nn = 51 THEN "LD B, " \o vx
    ELSE IF nn = 85 THEN "LD [I], " \o vx
    ELSE IF nn = 101 THEN "LD " \o vx \o ", [I]"
    ELSE "??? $" \o Hex2(nn)

\* Chip8CPU.disassemble(opcode)
Disassemble(opcode) ==
    LET nnn == opcode % 4096
        nn  == opcode % 256
        n   == opcode % 16
        x   == (opcode \div 256) % 16
        y   == (opcode \div 16) % 16
        op  == (opcode \div 4096) % 16
        vx  == "V" \o HexDigit(x)
        vy  == "V" \o HexDigit(y)
    IN  IF opcode = 224 THEN "CLS"
        ELSE IF opcode = 238 THEN "RET"
        ELSE IF op = 1 THEN "JP $" \o Hex3(nnn)
        ELSE IF op = 2 THEN "CALL $" \o Hex3(nnn)
        ELSE IF op = 3 THEN "SE " \o vx \o ", $" \o Hex2(nn)
        ELSE IF op = 4 THEN "SNE " \o vx \o ", $" \o Hex2(nn)
        ELSE IF op = 5 THEN "SE " \o vx \o ", " \o vy
        ELSE IF op = 6 THEN "LD " \o vx \o ", $" \o Hex2(nn)
        ELSE IF op = 7 THEN "ADD " \o vx \o ", $" \o Hex2(nn)
        ELSE IF op = 8 THEN AluMnemonic(n) \o " " \o vx \o ", " \o vy
        ELSE IF op = 9 THEN "SNE " \o vx \o ", " \o vy
        ELSE IF op = 10 THEN "LD I, $" \o Hex3(nnn)
        ELSE IF op = 11 THEN "JP V0, $" \o Hex3(nnn)
        ELSE IF op = 12 THEN "RND " \o vx \o ", $" \o Hex2(nn)
        ELSE IF op = 13 THEN "DRW " \o vx \o ", " \o vy \o ", " \o Decimal(n)
        ELSE IF op = 14 /\ nn = 158 THEN "SKP " \o vx
        ELSE IF op = 14 /\ nn = 161 THEN "SKNP " \o vx
        ELSE IF op = 15 THEN MiscMnemonic(x, nn)
        ELSE "??? $" \o Hex4(opcode)

----------------------------------------------------------------------------
(* cycle, timers, keypad *)

NoKeyPressed(s) == \A k \in 0 .. NUM_KEYS - 1 : ~s.keys[k]

\* the key the scan ends on when it does not stop at the first pressed key
FirstPressed_NoBreak(s) ==
    CHOOSE i \in 0 .. NUM_KEYS - 1 :
        s.keys[i] /\ \A j \in i + 1 .. NUM_KEYS - 1 : ~s.keys[j]

\* the first pressed key in enumerate(keys) order
FirstPressed(s) ==
    CHOOSE i \in 0 .. NUM_KEYS - 1 :
        s.keys[i] /\ \A j \in 0 .. i - 1 : ~s.keys[j]

\* the key-wait branch stepping PC over an instruction when it captures
KeyWait_AdvancePC(c) ==
    IF NoKeyPressed(c.state) THEN c
    ELSE [c EXCEPT !.state.V[c.state.key_register] = FirstPressed(c.state),
                   !.state.waiting_for_key = FALSE,
                   !.state.PC = c.state.PC + 2]

\* the key-wait branch of cycle
KeyWait(c) ==
    IF NoKeyPressed(c.state) THEN c
    ELSE [c EXCEPT !.state.V[c.state.key_register] = FirstPressed(c.state),
                   !.state.waiting_for_key = FALSE]

\* cycle looking at running only, not at paused
CycleStep_IgnoresPause(c, rnd) ==
    IF ~c.running THEN
        [cpu |-> c, fetched |-> FALSE, opcode |-> -1, raised |-> FALSE]
    ELSE IF c.state.waiting_for_key THEN
        [cpu |-> KeyWait(c), fetched |-> FALSE, opcode |-> -1, raised |-> FALSE]
    ELSE IF FetchRaises(c) THEN
        [cpu |-> c, fetched |-> FALSE, opcode |-> -1, raised |-> TRUE]
    ELSE
        LET f == Fetch(c)
            e == Execute(f.cpu, f.opcode, rnd)
        IN  [cpu |-> e.cpu, fetched |-> TRUE, opcode |-> f.opcode,
             raised |-> e.raised]

\* cycle looking at paused only, not at running
CycleStep_IgnoresRunning(c, rnd) ==
    IF c.paused THEN
        [cpu |-> c, fetched |-> FALSE, opcode |-> -1, raised |-> FALSE]
    ELSE IF c.state.waiting_for_key THEN
        [cpu |-> KeyWait(c), fetched |-> FALSE, opcode |-> -1, raised |-> FALSE]
    ELSE IF FetchRaises(c) THEN
        [cpu |-> c, fetched |-> FALSE, opcode |-> -1, raised |-> TRUE]
    ELSE
        LET f == Fetch(c)
            e == Execute(f.cpu, f.opcode, rnd)
        IN  [cpu |-> e.cpu, fetched |-> TRUE, opcode |-> f.opcode,
             raised |-> e.raised]

\* cycle without the return that ends the key-wait branch
CycleStep_NoReturn(c, rnd) ==
    IF ~c.running \/ c.paused THEN
        [cpu |-> c, fetched |-> FALSE, opcode |-> -1, raised |-> FALSE]
    ELSE
        LET w == IF c.state.waiting_for_key THEN KeyWait(c) ELSE c IN
        IF FetchRaises(w) THEN
            [cpu |-> w, fetched |-> FALSE, opcode |-> -1, raised |-> TRUE]
        ELSE
            LET f == Fetch(w)
                e == Execute(f.cpu, f.opcode, rnd)
            IN  [cpu |-> e.cpu, fetched |-> TRUE, opcode |-> f.opcode,
                 raised |-> e.raised]

\* Chip8CPU.cycle: the engine after the call, whether an opcode was fetched
\* (and which), and whether the call raised
CycleStep(c, rnd) ==
    IF ~c.running \/ c.paused THEN
        [cpu |-> c, fetched |-> FALSE, opcode |-> -1, raised |-> FALSE]
    ELSE IF c.state.waiting_for_key THEN
        [cpu |-> KeyWait(c), fetched |-> FALSE, opcode |-> -1, raised |-> FALSE]
    ELSE IF FetchRaises(c) THEN
        [cpu |-> c, fetched |-> FALSE, opcode |-> -1, raised |-> TRUE]
    ELSE
        LET f == Fetch(c)
            e == Execute(f.cpu, f.opcode, rnd)
        IN  [cpu |-> e.cpu, fetched |-> TRUE, opcode |-> f.opcode,
             raised |-> e.raised]

\* the values random.randint(0, 255) can return in the coming cycle: it is
\* called only when the opcode fetched is CXNN
RandomDraws(c) ==
    IF /\ c.running /\ ~c.paused /\ ~c.state.waiting_for_key
       /\ ~FetchRaises(c)
       /\ Byte(c.state.memory, c.state.PC) \div 16 = 12
    THEN 0 .. 255
    ELSE {0}

\* update_timers taking 1 from the timers whether or not they are positive
UpdateTimersCpu_BelowZero(c) ==
    [c EXCEPT !.state.delay_timer = c.state.delay_timer - 1,
              !.state.sound_timer = c.state.sound_timer - 1]

\* Chip8CPU.update_timers
UpdateTimersCpu(c) ==
    LET d == IF c.state.delay_timer > 0 THEN c.state.delay_timer - 1
             ELSE c.state.delay_timer
        t == IF c.state.sound_timer > 0 THEN c.state.sound_timer - 1
             ELSE c.state.sound_timer
    IN  [c EXCEPT !.state.delay_timer = d, !.state.sound_timer = t]

\* key_down guarding only the upper end of the range: a negative key indexes
\* the list from its end
KeyDownCpu_NoLowerGuard(c, key) ==
    IF key < NUM_KEYS /\ ListIndexOk(key, NUM_KEYS)
    THEN [c EXCEPT !.state.keys[ListIndex(key, NUM_KEYS)] = TRUE]
    ELSE c

\* Chip8CPU.key_down / key_up
KeyDownCpu(c, key) ==
    IF 0 <= key /\ key < NUM_KEYS THEN [c EXCEPT !.state.keys[key] = TRUE] ELSE c

KeyUpCpu(c, key) ==
    IF 0 <= key /\ key < NUM_KEYS THEN [c EXCEPT !.state.keys[key] = FALSE] ELSE c

\* CatsChip8Emulator._toggle_pause
TogglePauseCpu(c) == [c EXCEPT !.paused = ~c.paused]

----------------------------------------------------------------------------
(* Inputs *)

\* LD V3, K ; ADD V3, 1 ; JP 0x200
KeyWaitRom == BytesObject(<<243, 10, 115, 1, 18, 0>>)

\* LD V0, 0x0A ; ADD V0, 0x05 ; CLS
ScenarioRom == BytesObject(<<96, 10, 112, 5, 0, 224>>)

\* a ROM of the largest size that loads: JP 0xFFE at 0x200, LD VE, K in the
\* last two bytes of memory, zeros between them
FullRom ==
    [len |-> MEMORY_SIZE - PROGRAM_START,
     at  |-> (0 :> 31) @@ (1 :> 254)
                @@ (MEMORY_SIZE - PROGRAM_START - 2 :> 254)
                @@ (MEMORY_SIZE - PROGRAM_START - 1 :> 10)]

\* a ROM that is k bytes too large: JP 0x200, zeros, and a last byte 0xFF
OversizeRom(k) ==
    [len |-> MEMORY_SIZE - PROGRAM_START + k,
     at  |-> (0 :> 18) @@ (MEMORY_SIZE - PROGRAM_START + k - 1 :> 255)]

\* RET with nothing on the stack
ReturnRom == BytesObject(<<0, 238>>)

\* LD I, 0xFFF ; LD [I], V0
IndexRom == BytesObject(<<175, 255, 240, 85>>)

\* LD V0, 2 ; LD DT, V0 ; LD ST, V0
TimerRom == BytesObject(<<96, 2, 240, 21, 240, 24>>)

\* LD V0, 2 ; LD DT, V0 ; JP 0x204
LoopRom == BytesObject(<<96, 2, 240, 21, 18, 4>>)

\* the ROMs handed to load_rom, by number
RomInputs ==
    <<KeyWaitRom, ScenarioRom, FullRom, BytesObject(<<>>)>>
        \o [k \in 1 .. MaxOversize |-> OversizeRom(k)]

\* the programs of the runs that follow the stack pointer, I and the timers
ProgramInputs == <<ReturnRom, IndexRom, TimerRom>>

KeyInputs == (-1 .. MaxKey) \cup {NUM_KEYS}

\* the operand registers, register values and opcodes of the ALU runs
RegInputs == {0, 1, 15}

RegValues == (0 .. MaxVal) \cup {127, 128} \cup ((255 - MaxVal) .. 255)

AluOps == (0 .. 7) \cup {14}

AluOpcodes ==
    {32768 + x * 256 + y * 16 + z : x \in RegInputs, y \in RegInputs, z \in AluOps}

\* a ROM that fills memory: a 15-row sprite at 0x200 and the byte 0x80 in the
\* last byte of memory, zeros between them
SpriteRom ==
    [len |-> MEMORY_SIZE - PROGRAM_START,
     at  |-> [i \in 0 .. 14 |->
                 <<255, 129, 1, 128, 60, 66, 165, 129, 165, 153, 66, 60,
                   24, 231, 255>>[i + 1]]
                @@ (MEMORY_SIZE - PROGRAM_START - 1 :> 128)]

\* the engines execute is applied to: SpriteRom loaded, V0 and V1 holding
\* sprite coordinates, VF a flag, I the sprite or the last byte of memory
XInputs == {0, 60, 127}

YInputs == {0, 30, 63}

FlagInputs == {0, 1}

IInputs == {PROGRAM_START, MEMORY_SIZE - 1}

CornerPixels == {<<0, 0>>, <<0, 63>>, <<31, 0>>, <<31, 63>>}

ScatteredPixels ==
    {<<0, 0>>, <<0, 7>>, <<1, 3>>, <<1, 0>>, <<16, 5>>, <<17, 5>>, <<30, 61>>,
     <<31, 60>>, <<31, 62>>, <<0, 60>>, <<15, 9>>}

DisplayInputs == {BlankDisplay, CornerPixels, ScatteredPixels}

\* DXYN on V0 / VF and V1 / VF with N rows
SpriteHeights == (0 .. MaxRows) \cup {15}

DrawOpcodes ==
    {53248 + x * 256 + y * 16 + n : x \in {0, 15}, y \in {1, 15}, n \in SpriteHeights}

\* 00CN for every N
ScrollOpcodes == {192 + n : n \in 0 .. 15}

\* opcodes outside the instruction forms execute decodes
OperandPairs == {<<0, 0>>, <<0, 1>>, <<1, 0>>, <<15, 1>>}

UnknownOpcodes ==
    {0, 1, 176, 208, 225, 237, 239, 253, 291, 4095}
    \cup {20480 + p[1] * 256 + p[2] * 16 + n : p \in OperandPairs, n \in 1 .. 15}
    \cup {36864 + p[1] * 256 + p[2] * 16 + n : p \in OperandPairs, n \in 1 .. 15}
    \cup {32768 + p[1] * 256 + p[2] * 16 + n :
              p \in OperandPairs, n \in (8 .. 13) \cup {15}}
    \cup {57344 + x * 256 + nn : x \in {0, 15}, nn \in {0, 157, 159, 160, 162, 255}}
    \cup {61440 + x * 256 + nn :
              x \in {0, 15},
              nn \in (0 .. 255) \ {7, 10, 21, 24, 30, 41, 48, 51, 85, 101}}

\* the engines of the single-instruction runs over the whole instruction
\* set: constructed or with SpriteRom loaded, V0 a digit or 255, V1 = 200,
\* I at the program, two bytes or one byte before the end of memory
DigitInputs == (0 .. 15) \cup {255}

IndexInputs == {PROGRAM_START, MEMORY_SIZE - 2, MEMORY_SIZE - 1}

\* the values random.randint(0, 255) returns in these runs
RandomInputs == {0, 85, 170, 255}

\* at least one opcode of every instruction form
InstrOpcodes ==
    { 224, 238, 254, 255, 192, 195,              \* 00E0 00EE 00FE 00FF 00C0 00C3
      4660, 9029,                                \* 1234 2345
      12295, 16391, 20496,                       \* 3007 4007 5010
      25003, 28927, 29183,                       \* 61AB 70FF 71FF
      32784, 32785, 32786, 32787, 32788, 32789,  \* 8010 .. 8015
      32790, 32791, 32798,                       \* 8016 8017 801E
      36628, 33013, 36638,                       \* 8F14 80F5 8F1E
      36880, 41251, 45055,                       \* 9010 A123 AFFF
      45056, 45566, 45311, 49151,                \* B000 B1FE B0FF BFFF
      49152, 49407, 49423,                       \* C000 C0FF C10F
      53264, 53266, 53279,                       \* D010 D012 D01F
      57502, 57505,                              \* E09E E0A1
      61447, 61450, 61461, 61464, 61470,         \* F007 F00A F015 F018 F01E
      61481, 61737, 65321, 61488, 61491,         \* F029 F129 FF29 F030 F033
      61525, 61781, 65365,                       \* F055 F155 FF55
      61541, 61797, 65381,                       \* F065 F165 FF65
      61557 }                                    \* F075

\* the values of PC fetch is applied to
PcInputs == 0 .. MEMORY_SIZE - 1

\* the values of V0 that FX33 and FX55 store
StoredInputs == {9, 123}

\* the addresses called from nesting depth d: each depth has its own
CallTargets(d) ==
    IF d < MaxBranch THEN {768 + 2 * d, 1024 + 2 * d} ELSE {768 + 2 * d}

\* the opcodes handed to disassemble: every 16-bit value
DisassembleInputs == 0 .. 65535

----------------------------------------------------------------------------
(* The front end: CatsChip8Emulator *)

DEFAULT_CLOCK_HZ == 500

\* the rates of the Emulation menu
SpeedInputs == {500, 1000, 2000}

\* the front end after __init__; frames and issued count the update() calls
\* and the cycle() calls they made since the speed was last set
NewDriver ==
    [ clock_hz         |-> DEFAULT_CLOCK_HZ,
      cycles_per_frame |-> DEFAULT_CLOCK_HZ \div 60,
      frames           |-> 0,
      issued           |-> 0 ]

\* _set_speed(hz)
SetSpeedDriver(d, hz) ==
    [d EXCEPT !.clock_hz = hz,
              !.cycles_per_frame = hz \div 60,
              !.frames = 0,
              !.issued = 0]

\* for _ in range(k): self.cpu.cycle()
RECURSIVE RunCycles(_, _)
RunCycles(c, k) ==
    IF k = 0 THEN c
    ELSE LET r == CycleStep(c, 0) IN
         IF r.raised THEN r.cpu ELSE RunCycles(r.cpu, k - 1)

\* update(): the cycles of one frame, then update_timers when 1/60 s have
\* passed since the last tick
UpdateCpu(c, d, tick) ==
    LET r == RunCycles(c, d.cycles_per_frame) IN
    IF tick THEN UpdateTimersCpu(r) ELSE r

UpdateDriver(d) ==
    [d EXCEPT !.frames = d.frames + 1,
              !.issued = d.issued + d.cycles_per_frame]

\* _step without the final paused = True
StepCpu_LeavesRunning(c) ==
    IF c.running
    THEN CycleStep([c EXCEPT !.paused = FALSE], 0).cpu
    ELSE c

\* _step()
StepCpu(c) ==
    IF c.running
    THEN [CycleStep([c EXCEPT !.paused = FALSE], 0).cpu EXCEPT !.paused = TRUE]
    ELSE c

----------------------------------------------------------------------------
(* The state machine *)

\* the engine as one value
Cpu ==
    [ state     |-> state,
      running   |-> running,
      paused    |-> paused,
      draw_flag |-> draw_flag,
      quirks    |-> quirks ]

SetCpu(c) ==
    /\ state' = c.state
    /\ running' = c.running
    /\ paused' = c.paused
    /\ draw_flag' = c.draw_flag
    /\ quirks' = c.quirks

\* the record of a call: its name and the engine before it; earlier holds
\* the record of the call before it where an instruction is repeated
Call(name) ==
    [ op      |-> name,
      pre     |-> Cpu,
      earlier |-> <<>>,
      rom     |-> 0,
      key     |-> 0,
      ret     |-> FALSE,
      fetched |-> FALSE,
      opcode  |-> -1,
      raised  |-> FALSE ]

Init ==
    /\ state = NewCpu.state
    /\ running = NewCpu.running
    /\ paused = NewCpu.paused
    /\ draw_flag = NewCpu.draw_flag
    /\ quirks = NewCpu.quirks
    /\ ncycles = 0
    /\ driver = NewDriver
    /\ calls = <<>>
    /\ last = [Call("init") EXCEPT !.pre = NewCpu]

LoadRomAction ==
    \E rom \in DOMAIN RomInputs :
        LET r == LoadRom(Cpu, RomInputs[rom]) IN
        /\ SetCpu(r.cpu)
        /\ ncycles' = IF r.ret THEN 0 ELSE ncycles
        /\ UNCHANGED <<driver, calls>>
        /\ last' = [Call("load_rom") EXCEPT !.rom = rom, !.ret = r.ret]

Reset ==
    /\ SetCpu(ResetCpu(Cpu))
    /\ ncycles' = 0
    /\ UNCHANGED <<driver, calls>>
    /\ last' = Call("reset")

Cycle ==
    /\ ncycles < MaxCycles
    /\ \E rnd \in RandomDraws(Cpu) :
        LET r == CycleStep(Cpu, rnd) IN
        /\ SetCpu(r.cpu)
        /\ ncycles' = IF r.fetched THEN ncycles + 1 ELSE ncycles
        /\ UNCHANGED <<driver, calls>>
        /\ last' = [Call("cycle") EXCEPT !.fetched = r.fetched,
                                         !.opcode = r.opcode,
                                         !.raised = r.raised]

UpdateTimers ==
    /\ SetCpu(UpdateTimersCpu(Cpu))
    /\ last' = Call("update_timers")
    /\ UNCHANGED <<ncycles, driver, calls>>

KeyDown ==
    \E key \in KeyInputs :
        /\ SetCpu(KeyDownCpu(Cpu, key))
        /\ last' = [Call("key_down") EXCEPT !.key = key]
        /\ UNCHANGED <<ncycles, driver, calls>>

KeyUp ==
    \E key \in KeyInputs :
        /\ SetCpu(KeyUpCpu(Cpu, key))
        /\ last' = [Call("key_up") EXCEPT !.key = key]
        /\ UNCHANGED <<ncycles, driver, calls>>

TogglePause ==
    /\ SetCpu(TogglePauseCpu(Cpu))
    /\ last' = Call("toggle_pause")
    /\ UNCHANGED <<ncycles, driver, calls>>

Next ==
    \/ LoadRomAction
    \/ Reset
    \/ Cycle
    \/ UpdateTimers
    \/ KeyDown
    \/ KeyUp
    \/ TogglePause

Spec == Init /\ [][Next]_vars

\* the same machine running the programs of ProgramInputs
LoadProgram ==
    \E rom \in DOMAIN ProgramInputs :
        LET r == LoadRom(Cpu, ProgramInputs[rom]) IN
        /\ SetCpu(r.cpu)
        /\ ncycles' = IF r.ret THEN 0 ELSE ncycles
        /\ UNCHANGED <<driver, calls>>
        /\ last' = [Call("load_rom") EXCEPT !.rom = rom, !.ret = r.ret]

NextProg ==
    \/ LoadProgram
    \/ Reset
    \/ Cycle
    \/ UpdateTimers
    \/ KeyDown
    \/ KeyUp
    \/ TogglePause

SpecProg == Init /\ [][NextProg]_vars

----------------------------------------------------------------------------
(* The ALU instructions as a function of the register file: execute is     *)
(* applied once to an engine whose operand registers hold any of RegValues *)
(* (values 6XNN can load) under either setting of quirks.shift_vx.         *)

InitALU ==
    \E regs \in [RegInputs -> RegValues], shift_vx \in BOOLEAN :
        LET c == [NewCpu EXCEPT
                    !.state.V = [i \in 0 .. NUM_REGISTERS - 1 |->
                                    IF i \in RegInputs THEN regs[i] ELSE 0],
                    !.quirks.shift_vx = shift_vx]
        IN  /\ state = c.state
            /\ running = c.running
            /\ paused = c.paused
            /\ draw_flag = c.draw_flag
            /\ quirks = c.quirks
            /\ ncycles = 0
            /\ driver = NewDriver
            /\ calls = <<>>
            /\ last = [Call("init") EXCEPT !.pre = c]

ExecuteALU ==
    /\ last.op = "init"
    /\ \E opcode \in AluOpcodes :
        LET r == Execute(Cpu, opcode, 0) IN
        /\ SetCpu(r.cpu)
        /\ last' = [Call("execute") EXCEPT !.opcode = opcode, !.raised = r.raised]
        /\ UNCHANGED <<ncycles, driver, calls>>

SpecALU == InitALU /\ [][ExecuteALU]_vars

----------------------------------------------------------------------------
(* Single instructions as a function of the engine: execute is applied to  *)
(* an engine that has loaded SpriteRom and whose V0, V1, VF, I and display *)
(* hold any of the inputs above; a sprite drawn may be drawn a second time.*)

InitExec ==
    \E vx \in XInputs, vy \in YInputs, vf \in FlagInputs, i \in IInputs,
       d \in DisplayInputs :
        LET c0 == LoadRom(NewCpu, SpriteRom).cpu
            c == [c0 EXCEPT !.state.V[0] = vx,
                            !.state.V[1] = vy,
                            !.state.V[15] = vf,
                            !.state.I = i,
                            !.state.display = d]
        IN  /\ state = c.state
            /\ running = c.running
            /\ paused = c.paused
            /\ draw_flag = c.draw_flag
            /\ quirks = c.quirks
            /\ ncycles = 0
            /\ driver = NewDriver
            /\ calls = <<>>
            /\ last = [Call("init") EXCEPT !.pre = c]

ExecuteOnce ==
    /\ last.op = "init"
    /\ \E opcode \in UnknownOpcodes \cup DrawOpcodes \cup ScrollOpcodes :
        LET r == Execute(Cpu, opcode, 0) IN
        /\ SetCpu(r.cpu)
        /\ last' = [Call("execute") EXCEPT !.opcode = opcode, !.raised = r.raised]
        /\ UNCHANGED <<ncycles, driver, calls>>

\* the DXYN just executed is executed again
DrawAgain ==
    /\ last.op = "execute"
    /\ last.opcode \in DrawOpcodes
    /\ last.earlier = <<>>
    /\ LET r == Execute(Cpu, last.opcode, 0) IN
        /\ SetCpu(r.cpu)
        /\ last' = [Call("execute") EXCEPT !.opcode = last.opcode,
                                           !.raised = r.raised,
                                           !.earlier = <<last>>]
        /\ UNCHANGED <<ncycles, driver, calls>>

NextExec == ExecuteOnce \/ DrawAgain

SpecExec == InitExec /\ [][NextExec]_vars

----------------------------------------------------------------------------
(* The whole instruction set as a function of the engine: execute is       *)
(* applied once to a constructed or loaded engine under any setting of     *)
(* quirks.jump_v0 and quirks.load_store_inc, and reset may follow.         *)

InitInstr ==
    \E loaded \in BOOLEAN, jump_v0 \in BOOLEAN, load_store_inc \in BOOLEAN,
       v0 \in DigitInputs, i \in IndexInputs :
        LET c0 == IF loaded THEN LoadRom(NewCpu, SpriteRom).cpu ELSE NewCpu
            c == [c0 EXCEPT !.state.V[0] = v0,
                            !.state.V[1] = 200,
                            !.state.I = i,
                            !.quirks.jump_v0 = jump_v0,
                            !.quirks.load_store_inc = load_store_inc]
        IN  /\ state = c.state
            /\ running = c.running
            /\ paused = c.paused
            /\ draw_flag = c.draw_flag
            /\ quirks = c.quirks
            /\ ncycles = 0
            /\ driver = NewDriver
            /\ calls = <<>>
            /\ last = [Call("init") EXCEPT !.pre = c]

ExecuteInstr ==
    /\ last.op = "init"
    /\ \E opcode \in InstrOpcodes :
        \E rnd \in IF opcode \div 4096 = 12 THEN RandomInputs ELSE {0} :
            LET r == Execute(Cpu, opcode, rnd) IN
            /\ SetCpu(r.cpu)
            /\ last' = [Call("execute") EXCEPT !.opcode = opcode,
                                               !.raised = r.raised]
            /\ UNCHANGED <<ncycles, driver, calls>>

ResetInstr ==
    /\ last.op # "reset"
    /\ SetCpu(ResetCpu(Cpu))
    /\ last' = Call("reset")
    /\ UNCHANGED <<ncycles, driver, calls>>

NextInstr == ExecuteInstr \/ ResetInstr

SpecInstr == InitInstr /\ [][NextInstr]_vars

----------------------------------------------------------------------------
(* fetch as a function of PC: it is applied once to an engine that has     *)
(* loaded SpriteRom and whose PC is any address of memory.                 *)

InitFetch ==
    \E pc \in PcInputs :
        LET c == [LoadRom(NewCpu, SpriteRom).cpu EXCEPT !.state.PC = pc]
        IN  /\ state = c.state
            /\ running = c.running
            /\ paused = c.paused
            /\ draw_flag = c.draw_flag
            /\ quirks = c.quirks
            /\ ncycles = 0
            /\ driver = NewDriver
            /\ calls = <<>>
            /\ last = [Call("init") EXCEPT !.pre = c]

FetchOnce ==
    /\ last.op = "init"
    /\ IF FetchRaises(Cpu)
       THEN /\ last' = [Call("fetch") EXCEPT !.raised = TRUE]
            /\ UNCHANGED <<state, running, paused, draw_flag, quirks>>
       ELSE LET f == Fetch(Cpu) IN
            /\ SetCpu(f.cpu)
            /\ last' = [Call("fetch") EXCEPT !.opcode = f.opcode]
    /\ UNCHANGED <<ncycles, driver, calls>>

SpecFetch == InitFetch /\ [][FetchOnce]_vars

----------------------------------------------------------------------------
(* disassemble as a function of the opcode: it is called once on a         *)
(* constructed engine, which it does not change.                           *)

DisassembleOnce ==
    /\ last.op = "init"
    /\ \E opcode \in DisassembleInputs :
        last' = [Call("disassemble") EXCEPT !.opcode = opcode,
                                            !.ret = Disassemble(opcode)]
    /\ UNCHANGED <<state, running, paused, draw_flag, quirks, ncycles,
                 driver, calls>>

SpecDisassemble == Init /\ [][DisassembleOnce]_vars

----------------------------------------------------------------------------
(* The front end driving the engine: the menu entries Pause/Resume, Step   *)
(* and Speed, and the update() of each frame of run().                     *)

LoadLoop ==
    LET r == LoadRom(Cpu, LoopRom) IN
    /\ SetCpu(r.cpu)
    /\ last' = [Call("load_rom") EXCEPT !.ret = r.ret]
    /\ UNCHANGED <<ncycles, driver, calls>>

SetSpeed ==
    \E hz \in SpeedInputs :
        /\ driver' = SetSpeedDriver(driver, hz)
        /\ last' = Call("set_speed")
        /\ UNCHANGED <<state, running, paused, draw_flag, quirks, ncycles, calls>>

Update ==
    /\ driver.frames < MaxFrames
    /\ \E tick \in BOOLEAN :
        /\ SetCpu(UpdateCpu(Cpu, driver, tick))
        /\ driver' = UpdateDriver(driver)
        /\ last' = Call("update")
        /\ UNCHANGED <<ncycles, calls>>

Step ==
    /\ SetCpu(StepCpu(Cpu))
    /\ last' = Call("step")
    /\ UNCHANGED <<ncycles, driver, calls>>

NextDriver ==
    \/ LoadLoop
    \/ SetSpeed
    \/ Update
    \/ Step
    \/ TogglePause

SpecDriver == Init /\ [][NextDriver]_vars

----------------------------------------------------------------------------
(* Subroutines: execute of 2NNN and of 00EE on a constructed engine, in    *)
(* any order.  calls holds, for each call that has not returned, the PC    *)
(* and SP it was made with and whether the nesting has stayed within       *)
(* STACK_SIZE since.                                                       *)
(* execute runs after fetch has advanced PC, so the PC a 2NNN is executed *)
(* with is the address of the instruction following it.                   *)

CallSub ==
    \E nnn \in CallTargets(Len(calls)) :
        LET e == Execute(Cpu, 8192 + nnn, 0)
            depth == Len(calls) + 1
        IN  /\ SetCpu(e.cpu)
            /\ calls' = IF e.raised THEN calls
                        ELSE [i \in 1 .. depth |->
                                IF i = depth
                                THEN [ret |-> state.PC, sp |-> state.SP,
                                      within |-> depth <= STACK_SIZE]
                                ELSE [calls[i] EXCEPT !.within =
                                        @ /\ depth <= STACK_SIZE]]
            /\ last' = [Call("execute") EXCEPT !.opcode = 8192 + nnn,
                                               !.raised = e.raised]
            /\ UNCHANGED <<ncycles, driver>>

ReturnSub ==
    /\ calls # <<>> \/ state.SP > -MaxUnderflow
    /\ LET e == Execute(Cpu, 238, 0) IN
        /\ SetCpu(e.cpu)
        /\ calls' = IF calls = <<>> THEN calls ELSE SubSeq(calls, 1, Len(calls) - 1)
        /\ last' = [Call("execute") EXCEPT
                        !.opcode = 238,
                        !.raised = e.raised,
                        !.earlier = IF calls = <<>> THEN <<>>
                                    ELSE <<calls[Len(calls)]>>]
        /\ UNCHANGED <<ncycles, driver>>

NextStack == CallSub \/ ReturnSub

SpecStack == Init /\ [][NextStack]_vars

----------------------------------------------------------------------------
(* Every instruction form and every other call of the engine, on an        *)
(* engine that has loaded SpriteRom: one execute, then timer ticks, key   *)
(* events and the cycles of a key wait in any order.                       *)

InitMem ==
    \E load_store_inc \in BOOLEAN, v0 \in StoredInputs, i \in IndexInputs :
        LET c == [LoadRom(NewCpu, SpriteRom).cpu EXCEPT
                        !.state.V[0] = v0,
                        !.state.V[1] = 200,
                        !.state.I = i,
                        !.quirks.load_store_inc = load_store_inc]
        IN  /\ state = c.state
            /\ running = c.running
            /\ paused = c.paused
            /\ draw_flag = c.draw_flag
            /\ quirks = c.quirks
            /\ ncycles = 0
            /\ driver = NewDriver
            /\ calls = <<>>
            /\ last = [Call("init") EXCEPT !.pre = c]

\* cycle() while FX0A waits for a key
CycleWaiting == state.waiting_for_key /\ Cycle

NextMem ==
    \/ ExecuteInstr
    \/ ResetInstr
    \/ CycleWaiting
    \/ UpdateTimers
    \/ KeyDown
    \/ KeyUp

SpecMem == InitMem /\ [][NextMem]_vars

----------------------------------------------------------------------------
(* Properties of load_rom *)

FreshState == LoadFontset(CPUState)

LoadedRom == RomInputs[last.rom]

RomCapacity == MEMORY_SIZE - PROGRAM_START

\* C1: load_rom of more than 4096 - 0x200 bytes returns False and leaves the
\* whole engine (CPU state, running, paused, draw_flag) as it was.
C1_OversizedLoadChangesNothing ==
    (last.op = "load_rom" /\ LoadedRom.len > RomCapacity)
        => (last.ret = FALSE /\ Cpu = last.pre)

\* an oversized ROM was refused by an engine that was running a program
C1_Witness ==
    /\ last.op = "load_rom"
    /\ LoadedRom.len > RomCapacity
    /\ last.ret = FALSE
    /\ last.pre.running
    /\ last.pre.state.waiting_for_key
    /\ last.pre.state.PC # PROGRAM_START
    /\ state # FreshState

\* C2 as stated: 3584 bytes load, 3585 bytes are refused and the refusal
\* leaves the freshly-reset CPU state whatever the state was before.
C2_Original ==
    /\ (last.op = "load_rom" /\ LoadedRom.len = RomCapacity) => last.ret = TRUE
    /\ (last.op = "load_rom" /\ LoadedRom.len = RomCapacity + 1)
            => (last.ret = FALSE /\ state = FreshState)

\* C2 amended: 3584 bytes load, 3585 bytes are refused and the refusal
\* leaves the CPU state the engine had before the call.
C2_BoundaryLoad ==
    /\ (last.op = "load_rom" /\ LoadedRom.len = RomCapacity) => last.ret = TRUE
    /\ (last.op = "load_rom" /\ LoadedRom.len = RomCapacity + 1)
            => (last.ret = FALSE /\ state = last.pre.state)

\* a ROM one byte too large was refused while another program was loaded
C2_Witness ==
    /\ last.op = "load_rom"
    /\ LoadedRom.len = RomCapacity + 1
    /\ last.ret = FALSE
    /\ Byte(state.memory, PROGRAM_START) # 0
    /\ state = last.pre.state

\* C3: after a successful load_rom memory holds the font, the ROM at 0x200
\* and zeros, every register, timer and pixel is 0, PC is 0x200, no key is
\* down, no key wait is pending, and the engine is running and not paused.
C3_LoadedState ==
    (last.op = "load_rom" /\ last.ret = TRUE) =>
        /\ \A a \in 0 .. MEMORY_SIZE - 1 :
              Byte(state.memory, a) =
                  IF a < Len(FONTSET) THEN FONTSET[a + 1]
                  ELSE IF a >= PROGRAM_START /\ a < PROGRAM_START + LoadedRom.len
                       THEN Byte(LoadedRom.at, a - PROGRAM_START)
                       ELSE 0
        /\ \A i \in 0 .. NUM_REGISTERS - 1 : state.V[i] = 0
        /\ state.I = 0
        /\ state.SP = 0
        /\ state.delay_timer = 0
        /\ state.sound_timer = 0
        /\ \A py \in 0 .. DISPLAY_H - 1, px \in 0 .. DISPLAY_W - 1 :
              Pixel(state.display, py, px) = 0
        /\ state.PC = PROGRAM_START
        /\ \A k \in 0 .. NUM_KEYS - 1 : ~state.keys[k]
        /\ ~state.waiting_for_key
        /\ running
        /\ ~paused

\* a ROM was loaded over another program that had run and taken a key
C3_Witness ==
    /\ last.op = "load_rom"
    /\ last.ret = TRUE
    /\ LoadedRom.len > 0
    /\ last.pre.state.V[3] # 0
    /\ last.pre.state.PC # PROGRAM_START
    /\ ~NoKeyPressed(last.pre.state)
    /\ last.pre.state.memory # state.memory

----------------------------------------------------------------------------
(* Properties of the key wait *)

IsFX0A(opcode) == opcode \div 4096 = 15 /\ opcode % 256 = 10

\* the last call was a cycle() made while a key wait was pending
WaitingCycle == last.op = "cycle" /\ last.pre.state.waiting_for_key

\* the last call was the cycle() that captured a key
CaptureCycle == WaitingCycle /\ ~state.waiting_for_key

\* the last call wrote one V register, ended the wait and did nothing else
OneRegisterWritten ==
    \E r \in 0 .. NUM_REGISTERS - 1 :
        Cpu = [last.pre EXCEPT !.state.V[r] = state.V[r],
                               !.state.waiting_for_key = FALSE]

\* C4 as stated: while waiting, a cycle() with no key down changes nothing;
\* the first cycle() with a key down writes one register and ends the wait
\* without a fetch; the cycle() after it fetches.
C4_Original ==
    /\ (WaitingCycle /\ NoKeyPressed(last.pre.state))
            => (Cpu = last.pre /\ ~last.fetched)
    /\ (WaitingCycle /\ ~NoKeyPressed(last.pre.state)) =>
            /\ ~last.fetched
            /\ ~state.waiting_for_key
            /\ OneRegisterWritten
            /\ \A rnd \in RandomDraws(Cpu) : CycleStep(Cpu, rnd).fetched

\* C4 amended: while waiting, a cycle() with no key down or with the engine
\* paused changes nothing; a cycle() of the unpaused engine with a key down
\* writes one register and ends the wait without a fetch; the cycle() after
\* it takes the fetch path (fetch raises when PC is past the end of memory).
C4_KeyWaitBlocks ==
    /\ (WaitingCycle /\ (NoKeyPressed(last.pre.state) \/ last.pre.paused))
            => (Cpu = last.pre /\ ~last.fetched)
    /\ (WaitingCycle /\ ~NoKeyPressed(last.pre.state) /\ ~last.pre.paused) =>
            /\ ~last.fetched
            /\ ~state.waiting_for_key
            /\ OneRegisterWritten
            /\ \A rnd \in RandomDraws(Cpu) :
                  LET n == CycleStep(Cpu, rnd) IN
                  IF FetchRaises(Cpu) THEN n.raised /\ n.cpu = Cpu
                  ELSE n.fetched

\* a key wait ended with a capture
C4_Witness ==
    /\ CaptureCycle
    /\ ~last.fetched
    /\ ~FetchRaises(Cpu)

\* C5 as stated: PC is the same before and after the cycle() that executes
\* FX0A, and before and after the cycle() that captures the key.
C5_Original ==
    /\ (last.op = "cycle" /\ last.fetched /\ IsFX0A(last.opcode))
            => state.PC = last.pre.state.PC
    /\ CaptureCycle => state.PC = last.pre.state.PC

\* C5 amended: the cycle() that executes FX0A advances PC by 2 (its fetch)
\* and enters the wait; the cycle() that captures the key leaves PC as it is.
C5_KeyWaitPC ==
    /\ (last.op = "cycle" /\ last.fetched /\ IsFX0A(last.opcode))
            => (state.PC = last.pre.state.PC + 2 /\ state.waiting_for_key)
    /\ CaptureCycle => state.PC = last.pre.state.PC

\* the key was captured with PC just past the FX0A at 0x200
C5_Witness ==
    /\ CaptureCycle
    /\ state.PC = PROGRAM_START + 2
    /\ last.pre.state.PC = PROGRAM_START + 2

\* the smallest index of a pressed key
SmallestPressed(s) ==
    CHOOSE k \in 0 .. NUM_KEYS - 1 :
        s.keys[k] /\ \A j \in 0 .. NUM_KEYS - 1 : s.keys[j] => k <= j

\* FX0A records its X, and the cycle() made with keys down writes the
\* smallest pressed key into that register and no other, and ends the wait
KeyCaptured ==
    /\ state.V[last.pre.state.key_register] = SmallestPressed(last.pre.state)
    /\ \A i \in 0 .. NUM_REGISTERS - 1 :
          i # last.pre.state.key_register => state.V[i] = last.pre.state.V[i]
    /\ ~state.waiting_for_key

FX0ARecordsX ==
    (last.op = "cycle" /\ last.fetched /\ IsFX0A(last.opcode))
        => state.key_register = (last.opcode \div 256) % 16

\* C6 as stated: while waiting, any cycle() made with a key down captures.
C6_Original ==
    /\ FX0ARecordsX
    /\ (WaitingCycle /\ ~NoKeyPressed(last.pre.state)) => KeyCaptured

\* C6 amended: while waiting, a cycle() of the unpaused engine made with a
\* key down captures the smallest pressed key into the recorded register.
C6_SmallestKeyCaptured ==
    /\ FX0ARecordsX
    /\ (WaitingCycle /\ ~NoKeyPressed(last.pre.state) /\ ~last.pre.paused)
            => KeyCaptured

\* keys 0 and 1 were both down and key 0 was written over another value
C6_Witness ==
    /\ CaptureCycle
    /\ last.pre.state.keys[0]
    /\ last.pre.state.keys[1]
    /\ last.pre.state.key_register = 3
    /\ last.pre.state.V[3] # 0
    /\ state.V[3] = 0

----------------------------------------------------------------------------
(* Properties of the ALU instructions, stated on the register values held  *)
(* before the instruction                                                  *)

OpX == (last.opcode \div 256) % 16
OpY == (last.opcode \div 16) % 16

\* execute has run the ALU instruction 8XYz
ExecutedALU(z) ==
    /\ last.op = "execute"
    /\ last.opcode \div 4096 = 8
    /\ last.opcode % 16 = z

PreV == last.pre.state.V

\* the register SHR and SHL read
ShiftSource == IF last.pre.quirks.shift_vx THEN OpX ELSE OpY

\* the flag and the result of 8XYz on the pre-instruction values
FlagOf(z) ==
    IF z = 4 THEN (IF PreV[OpX] + PreV[OpY] > 255 THEN 1 ELSE 0)
    ELSE IF z = 5 THEN (IF PreV[OpX] >= PreV[OpY] THEN 1 ELSE 0)
    ELSE IF z = 6 THEN PreV[ShiftSource] % 2
    ELSE IF z = 7 THEN (IF PreV[OpY] >= PreV[OpX] THEN 1 ELSE 0)
    ELSE (PreV[ShiftSource] \div 128) % 2

ResultOf(z) ==
    IF z = 4 THEN (PreV[OpX] + PreV[OpY]) % 256
    ELSE IF z = 5 THEN (PreV[OpX] - PreV[OpY]) % 256
    ELSE IF z = 6 THEN PreV[ShiftSource] \div 2
    ELSE IF z = 7 THEN (PreV[OpY] - PreV[OpX]) % 256
    ELSE (PreV[ShiftSource] * 2) % 256

\* C7: after 8XY4, 8XY5, 8XY6, 8XY7 and 8XYE V[0xF] is the flag of the
\* pre-instruction values (also when x = 0xF), and V[x], x # 0xF, is the
\* result of the pre-instruction values (also when y = 0xF).
C7_FlagWrittenLast ==
    \A z \in {4, 5, 6, 7, 14} :
        ExecutedALU(z) =>
            /\ state.V[15] = FlagOf(z)
            /\ OpX # 15 => state.V[OpX] = ResultOf(z)

\* C8 as stated: after 8XY4 V[0xF] is the carry of the pre-instruction sum
\* and V[x] is that sum mod 256, for every x.
C8_Original ==
    ExecutedALU(4) =>
        /\ state.V[15] = (IF PreV[OpX] + PreV[OpY] > 255 THEN 1 ELSE 0)
        /\ state.V[OpX] = (PreV[OpX] + PreV[OpY]) % 256

\* C8 amended: after 8XY4 V[0xF] is the carry of the pre-instruction sum,
\* and V[x] is that sum mod 256 when x # 0xF.
C8_AddCarry ==
    ExecutedALU(4) =>
        /\ state.V[15] = (IF PreV[OpX] + PreV[OpY] > 255 THEN 1 ELSE 0)
        /\ OpX # 15 => state.V[OpX] = (PreV[OpX] + PreV[OpY]) % 256

\* 8XY4 overflowed by exactly one: 255 + 1 gave 0 with carry 1
C8_Witness ==
    /\ ExecutedALU(4)
    /\ OpX # 15
    /\ PreV[OpX] + PreV[OpY] = 256
    /\ PreV[15] = 0
    /\ state.V[15] = 1
    /\ state.V[OpX] = 0

\* C9: after 8XY5 V[0xF] is 1 exactly when pre V[x] >= pre V[y], after 8XY7
\* exactly when pre V[y] >= pre V[x].
C9_BorrowFlag ==
    /\ ExecutedALU(5) => state.V[15] = (IF PreV[OpX] >= PreV[OpY] THEN 1 ELSE 0)
    /\ ExecutedALU(7) => state.V[15] = (IF PreV[OpY] >= PreV[OpX] THEN 1 ELSE 0)

\* C10: 8XY6 and 8XYE read V[x] under quirks.shift_vx and V[y] otherwise;
\* V[0xF] becomes bit 0 (SHR) or bit 7 (SHL) of the pre-instruction source,
\* and V[x], x # 0xF, that source shifted by one bit within 8 bits.
C10_ShiftSourceAndFlag ==
    /\ ExecutedALU(6) =>
          /\ state.V[15] = PreV[ShiftSource] % 2
          /\ OpX # 15 => state.V[OpX] = PreV[ShiftSource] \div 2
    /\ ExecutedALU(14) =>
          /\ state.V[15] = (PreV[ShiftSource] \div 128) % 2
          /\ OpX # 15 => state.V[OpX] = (PreV[ShiftSource] * 2) % 256

----------------------------------------------------------------------------
(* Properties of single instructions *)

Executed == last.op = "execute"

\* the opcode is none of the documented instruction forms
UndocumentedForm(opcode) ==
    LET op == opcode \div 4096
        nn == opcode % 256
        n  == opcode % 16
    IN  \/ op = 0 /\ opcode \notin {224, 238, 254, 255} /\ opcode \div 16 # 12
        \/ op \in {5, 9} /\ n # 0
        \/ op = 8 /\ n \in (8 .. 13) \cup {15}
        \/ op = 14 /\ nn \notin {158, 161}
        \/ op = 15 /\ nn \notin {7, 10, 21, 24, 30, 41, 48, 51, 85, 101}

\* C11: execute of an opcode that is none of the documented instruction
\* forms changes nothing in the engine (registers, memory, display, stack,
\* PC) and raises no error.
C11_UndocumentedOpcodeIsNoOp ==
    (Executed /\ UndocumentedForm(last.opcode))
        => (Cpu = last.pre /\ ~last.raised)

\* what holds of the code: every such opcode but 5XYN and 9XYN is a no-op
UndocumentedButSkips ==
    (Executed /\ UndocumentedForm(last.opcode)
              /\ last.opcode \div 4096 \notin {5, 9})
        => (Cpu = last.pre /\ ~last.raised)

\* execute has run DXYN
Drew == Executed /\ last.opcode \div 4096 = 13

\* the sprite origin, height and bits of the DXYN executed last
SpriteX == PreV[OpX] % DISPLAY_W
SpriteY == PreV[OpY] % DISPLAY_H
SpriteRows == last.opcode % 16

\* bit col (MSB first) of the sprite byte memory[I + row]; there is no byte
\* past the end of memory
SpriteBit(row, col) ==
    (Byte(last.pre.state.memory, last.pre.state.I + row) \div (2 ^ (7 - col))) % 2

\* the pixels the sprite covers with a set bit inside the display
SpritePixels ==
    {<<SpriteY + rc[1], SpriteX + rc[2]>> : rc \in
        {rc \in (0 .. SpriteRows - 1) \X (0 .. 7) :
            /\ SpriteBit(rc[1], rc[2]) = 1
            /\ SpriteX + rc[2] < DISPLAY_W
            /\ SpriteY + rc[1] < DISPLAY_H}}

TurnedOff == last.pre.state.display \ state.display
TurnedOn == state.display \ last.pre.state.display

\* C12: DXYN toggles exactly the pixels (V[y] mod 32 + r, V[x] mod 64 + c)
\* whose sprite bit is set and that lie inside the display; bits past the
\* right or bottom edge are dropped, and every other pixel is unchanged.
C12_DrawTogglesClipped ==
    Drew =>
        /\ TurnedOff \cup TurnedOn = SpritePixels
        /\ \A p \in state.display :
              p[1] \in 0 .. DISPLAY_H - 1 /\ p[2] \in 0 .. DISPLAY_W - 1

\* a 15-row sprite was drawn at (60, 30) over lit pixels: it was cut at both
\* edges, and nothing appeared at the left or the top
C12_Witness ==
    /\ Drew
    /\ ~last.raised
    /\ SpriteX = 60 /\ SpriteY = 30 /\ SpriteRows = 15
    /\ last.pre.state.display = ScatteredPixels
    /\ <<30, 60>> \in TurnedOn
    /\ <<30, 61>> \in TurnedOff
    /\ <<31, 60>> \in TurnedOff
    /\ <<0, 0>> \in state.display
    /\ <<31, 62>> \in state.display

\* C13: after DXYN V[0xF] is 1 exactly when a pixel that was on before the
\* draw is off after it, whatever V[0xF] was before.
C13_CollisionFlag ==
    Drew => state.V[15] = (IF TurnedOff # {} THEN 1 ELSE 0)

\* V[0xF] was 1 and a draw that turned pixels on and none off cleared it
C13_Witness ==
    /\ Drew
    /\ PreV[15] = 1
    /\ TurnedOn # {}
    /\ TurnedOff = {}
    /\ state.V[15] = 0

\* the same DXYN has run twice in a row
DrewTwice == Drew /\ last.earlier # <<>>

FirstDraw == last.earlier[1]

\* both draws had the same coordinates (V[x] and V[y] held the same values)
SameCoordinates ==
    /\ PreV[OpX] = FirstDraw.pre.state.V[OpX]
    /\ PreV[OpY] = FirstDraw.pre.state.V[OpY]

\* C14: the same sprite drawn twice at the same coordinates leaves the
\* display as it was before the first draw, and the second draw ends with
\* V[0xF] = 1 when the first draw turned a pixel on.
C14_DoubleDrawRestores ==
    (DrewTwice /\ SameCoordinates) =>
        /\ state.display = FirstDraw.pre.state.display
        /\ (last.pre.state.display \ FirstDraw.pre.state.display # {})
              => state.V[15] = 1

\* a sprite that turned pixels on and off was drawn again and undone
C14_Witness ==
    /\ DrewTwice
    /\ SameCoordinates
    /\ last.pre.state.display \ FirstDraw.pre.state.display # {}
    /\ FirstDraw.pre.state.display \ last.pre.state.display # {}
    /\ state.display = FirstDraw.pre.state.display
    /\ state.V[15] = 1

\* execute has run 00CN
Scrolled == Executed /\ last.opcode \div 16 = 12

\* C15: 00CN moves row r to row r + N when r + N < 32, drops the other rows
\* and leaves rows 0 .. N-1 blank.
C15_ScrollDown ==
    Scrolled =>
        LET n == last.opcode % 16 IN
        \A py \in 0 .. DISPLAY_H - 1, px \in 0 .. DISPLAY_W - 1 :
            Pixel(state.display, py, px) =
                IF py < n THEN 0 ELSE Pixel(last.pre.state.display, py - n, px)

\* 00CF moved row 16 to the last row and dropped rows 17 and 31
C15_Witness ==
    /\ Scrolled
    /\ last.opcode % 16 = 15
    /\ last.pre.state.display = ScatteredPixels
    /\ <<31, 5>> \in state.display
    /\ <<15, 0>> \in state.display
    /\ \A p \in state.display : p[1] >= 15

----------------------------------------------------------------------------
(* Properties of every reachable state *)

\* C16: the stack pointer is within 0 .. 16 in every reachable state.
C16_StackPointerInRange == state.SP >= 0 /\ state.SP <= STACK_SIZE

\* C17: the index register is within 0 .. 0xFFF in every reachable state.
C17_IndexWithin12Bits == state.I >= 0 /\ state.I <= 4095

TimerUpdate == last.op = "update_timers"

\* a timer after update_timers: one less when positive, 0 when 0
Ticked(t) == IF t > 0 THEN t - 1 ELSE 0

\* C18: update_timers takes 1 from each timer that is positive, leaves a
\* timer that is 0 at 0 and changes nothing else; both timers are within
\* 0 .. 255 in every reachable state.
C18_TimersDecrementToZero ==
    /\ state.delay_timer \in 0 .. 255
    /\ state.sound_timer \in 0 .. 255
    /\ TimerUpdate =>
          Cpu = [last.pre EXCEPT
                    !.state.delay_timer = Ticked(last.pre.state.delay_timer),
                    !.state.sound_timer = Ticked(last.pre.state.sound_timer)]

\* update_timers ran with the delay timer at 0 and the sound timer at 2
C18_Witness ==
    /\ TimerUpdate
    /\ last.pre.state.delay_timer = 0
    /\ last.pre.state.sound_timer = 2
    /\ state.delay_timer = 0
    /\ state.sound_timer = 1

----------------------------------------------------------------------------
(* Properties of the keypad calls and of pause *)

KeyInRange == last.key >= 0 /\ last.key < NUM_KEYS

\* C19: key_down(k) and key_up(k) with k in 0 .. 15 write keys[k] and
\* nothing else, with any other k they change nothing; a second identical
\* call changes nothing more; they never raise.
C19_KeyEventsGuardedIdempotent ==
    /\ last.op = "key_down" =>
          /\ Cpu = IF KeyInRange
                   THEN [last.pre EXCEPT !.state.keys[last.key] = TRUE]
                   ELSE last.pre
          /\ KeyDownCpu(Cpu, last.key) = Cpu
    /\ last.op = "key_up" =>
          /\ Cpu = IF KeyInRange
                   THEN [last.pre EXCEPT !.state.keys[last.key] = FALSE]
                   ELSE last.pre
          /\ KeyUpCpu(Cpu, last.key) = Cpu

\* key_down(-1) arrived during a key wait with key 1 down and changed nothing
C19_Witness ==
    /\ last.op = "key_down"
    /\ last.key = -1
    /\ last.pre.state.waiting_for_key
    /\ last.pre.state.keys[1]
    /\ ~last.pre.state.keys[NUM_KEYS - 1]
    /\ Cpu = last.pre

\* C20: cycle() of a paused engine fetches nothing and changes nothing; a
\* pending key wait stays pending even with a key down.
C20_PausedCycleIsNoOp ==
    (last.op = "cycle" /\ last.pre.paused)
        => (Cpu = last.pre /\ ~last.fetched /\ ~last.raised)

\* cycle() ran on a paused engine that was waiting with key 0 down
C20_Witness ==
    /\ last.op = "cycle"
    /\ last.pre.paused
    /\ last.pre.running
    /\ last.pre.state.waiting_for_key
    /\ last.pre.state.keys[0]
    /\ state.waiting_for_key
    /\ state.V[last.pre.state.key_register] # 0

----------------------------------------------------------------------------
(* Properties of reset and of the instructions that depend on the quirks *)

ResetCall == last.op = "reset"

\* C21: reset() leaves the CPU state of a freshly constructed engine (font
\* at 0x000-0x04F, all other memory 0, V, I, SP, stack and timers 0, PC at
\* 0x200, blank display, keys released, no key wait), with or without a ROM,
\* and leaves the quirks as they were.
C21_ResetRestoresInitialState ==
    ResetCall =>
        /\ state = NewCpu.state
        /\ \A a \in 0 .. MEMORY_SIZE - 1 :
              Byte(state.memory, a) = IF a < 80 THEN FONTSET[a + 1] ELSE 0
        /\ \A i \in 0 .. NUM_REGISTERS - 1 : state.V[i] = 0
        /\ \A i \in 0 .. STACK_SIZE - 1 : state.stack[i] = 0
        /\ state.I = 0 /\ state.SP = 0
        /\ state.delay_timer = 0 /\ state.sound_timer = 0
        /\ state.PC = PROGRAM_START
        /\ state.display = BlankDisplay
        /\ \A k \in 0 .. NUM_KEYS - 1 : ~state.keys[k]
        /\ ~state.waiting_for_key
        /\ quirks = last.pre.quirks

\* reset ran on an engine without a ROM whose quirks were not the defaults
\* and whose memory and registers an instruction had written
C21_Witness ==
    /\ ResetCall
    /\ ~last.pre.running
    /\ ~last.pre.quirks.jump_v0
    /\ ~last.pre.quirks.load_store_inc
    /\ Byte(last.pre.state.memory, PROGRAM_START) # 0
    /\ last.pre.state.V[0] # 0
    /\ last.pre.state.I # 0
    /\ state = NewCpu.state

ExecutedF(nn) == Executed /\ last.opcode \div 4096 = 15 /\ last.opcode % 256 = nn

PreI == last.pre.state.I

\* C22: BNNN sets PC to nnn + V[0] under quirks.jump_v0 and to nnn + V[x],
\* x the top nibble of nnn, without it, and changes nothing else.
C22_JumpWithOffset ==
    (Executed /\ last.opcode \div 4096 = 11) =>
        LET nnn == last.opcode % 4096 IN
        /\ ~last.raised
        /\ Cpu = [last.pre EXCEPT !.state.PC =
                     IF last.pre.quirks.jump_v0 THEN nnn + PreV[0]
                     ELSE nnn + PreV[OpX]]

\* B1FE ran without jump_v0 and jumped to 0x1FE + V1, not 0x1FE + V0
C22_Witness ==
    /\ Executed
    /\ last.opcode = 45566
    /\ ~last.pre.quirks.jump_v0
    /\ PreV[0] = 7
    /\ state.PC = 510 + 200

\* what the block instructions do when they run to their end
BlockCopied ==
    /\ ExecutedF(85) => \A i \in 0 .. OpX : Byte(state.memory, PreI + i) = PreV[i]
    /\ ExecutedF(101) =>
          \A i \in 0 .. OpX : state.V[i] = Byte(last.pre.state.memory, PreI + i)
    /\ state.I = IF last.pre.quirks.load_store_inc THEN PreI + OpX + 1 ELSE PreI

\* C23 as stated: FX55 copies V[0..x] to memory[I..I+x], FX65 memory[I..I+x]
\* to V[0..x], and I grows by x + 1 under quirks.load_store_inc and stays
\* otherwise, for every I.
C23_Original == (ExecutedF(85) \/ ExecutedF(101)) => BlockCopied

\* C23 amended: that holds when I + x <= 0xFFF; when the block passes the
\* end of memory the instruction raises with I unchanged.
C23_BlockStoreLoad ==
    (ExecutedF(85) \/ ExecutedF(101)) =>
        IF PreI + OpX < MEMORY_SIZE
        THEN ~last.raised /\ BlockCopied
        ELSE last.raised /\ state.I = PreI

\* F155 stored V0 and V1 in the last two bytes of memory and left I at 0x1000
C23_Witness ==
    /\ ExecutedF(85)
    /\ OpX = 1
    /\ PreI = MEMORY_SIZE - 2
    /\ last.pre.quirks.load_store_inc
    /\ PreV[0] = 9
    /\ Byte(state.memory, MEMORY_SIZE - 2) = 9
    /\ Byte(state.memory, MEMORY_SIZE - 1) = 200
    /\ state.I = MEMORY_SIZE

----------------------------------------------------------------------------
(* Properties of fetch and of straight-line execution *)

Fetched == last.op = "fetch"

PrePC == last.pre.state.PC

\* C24: for 0 <= PC <= 4094 fetch returns memory[PC] * 256 + memory[PC + 1],
\* adds 2 to PC and changes nothing else.
C24_FetchBigEndian ==
    (Fetched /\ PrePC >= 0 /\ PrePC <= MEMORY_SIZE - 2) =>
        /\ ~last.raised
        /\ last.opcode = Byte(last.pre.state.memory, PrePC) * 256
                            + Byte(last.pre.state.memory, PrePC + 1)
        /\ Cpu = [last.pre EXCEPT !.state.PC = PrePC + 2]

\* fetch at the odd address 0x201 returned 0x8101 and left PC at 0x203
C24_Witness ==
    /\ Fetched
    /\ PrePC = PROGRAM_START + 1
    /\ last.opcode = 129 * 256 + 1
    /\ state.PC = PROGRAM_START + 3

\* the program in memory is rom, and the engine is running it
Running(rom) ==
    /\ running
    /\ \A a \in PROGRAM_START .. MEMORY_SIZE - 1 :
          Byte(state.memory, a) =
              IF a < PROGRAM_START + rom.len THEN Byte(rom.at, a - PROGRAM_START)
              ELSE 0

\* C25: after load_rom, k fetching cycles over straight-line code leave PC
\* at 0x200 + 2k with the k instructions executed in order: for the ROM
\* 60 0A 70 05 00 E0 V[0] is 0x0A after one cycle and 0x0F after two, and
\* after three PC is 0x206 and the display blank.
C25_StraightLineRun ==
    /\ (Running(ScenarioRom) \/ Running(BytesObject(<<>>)))
            => state.PC = PROGRAM_START + 2 * ncycles
    /\ Running(ScenarioRom) =>
          /\ state.V[0] = (IF ncycles = 0 THEN 0
                           ELSE IF ncycles = 1 THEN 10 ELSE 15)
          /\ \A i \in 1 .. NUM_REGISTERS - 1 : state.V[i] = 0
          /\ ncycles >= 3 => state.display = BlankDisplay

\* the third cycle of the ROM 60 0A 70 05 00 E0 has run CLS
C25_Witness ==
    /\ Running(ScenarioRom)
    /\ ncycles = 3
    /\ last.op = "cycle"
    /\ last.opcode = 224
    /\ state.V[0] = 15
    /\ state.PC = PROGRAM_START + 6
    /\ state.display = BlankDisplay

----------------------------------------------------------------------------
(* Properties of FX29, draw_flag, the register range and determinism *)

\* C26: FX29 on a constructed or just-loaded engine with V[x] = d, d a digit
\* 0 .. 15, leaves I at five bytes of memory equal to the glyph of d,
\* FONTSET[5d .. 5d + 4].
C26_FontGlyphRoundTrip ==
    (ExecutedF(41) /\ PreV[OpX] \in 0 .. 15) =>
        \A j \in 0 .. 4 :
            Byte(state.memory, state.I + j) = FONTSET[5 * PreV[OpX] + j + 1]

\* F029 ran with V0 = 0xF and I points at F0 80 F0 80 80
C26_Witness ==
    /\ ExecutedF(41)
    /\ OpX = 0
    /\ PreV[0] = 15
    /\ state.I = 75
    /\ <<Byte(state.memory, 75), Byte(state.memory, 76), Byte(state.memory, 77),
         Byte(state.memory, 78), Byte(state.memory, 79)>>
            = <<240, 128, 240, 128, 128>>

\* execute has run DXYN, 00E0 or 00CN
ExecutedDisplayOp ==
    /\ Executed
    /\ \/ last.opcode \div 4096 = 13
       \/ last.opcode = 224
       \/ last.opcode \div 16 = 12

\* no call on the engine turns draw_flag off
NeverCleared == (last.op \in {"execute", "reset"} /\ last.pre.draw_flag) => draw_flag

\* C27 as stated: draw_flag is true after every execution of DXYN, 00E0 and
\* 00CN, and the engine never clears it.
C27_Original ==
    /\ ExecutedDisplayOp => draw_flag
    /\ NeverCleared

\* C27 amended: draw_flag is true after every execution of DXYN, 00E0 and
\* 00CN that returns; a DXYN that raises on a sprite row past the end of
\* memory leaves draw_flag as it was; the engine never clears it.
C27_DrawFlagSet ==
    /\ (ExecutedDisplayOp /\ ~last.raised) => draw_flag
    /\ (ExecutedDisplayOp /\ last.raised) => draw_flag = last.pre.draw_flag
    /\ NeverCleared

\* DXY0 ran on a constructed engine, whose draw_flag was false, and set it
C27_Witness ==
    /\ ExecutedDisplayOp
    /\ last.opcode = 53264
    /\ ~last.pre.draw_flag
    /\ draw_flag
    /\ state.display = last.pre.state.display

\* C28: every register V[0] .. V[15] holds a value in 0 .. 255 in every
\* reachable state.
C28_RegistersAreBytes ==
    \A i \in 0 .. NUM_REGISTERS - 1 : state.V[i] \in 0 .. 255

\* 8015 ran with V0 = 0 and V1 = 200 and left V0 = 56, VF = 0
C28_Witness ==
    /\ Executed
    /\ last.opcode = 32789
    /\ PreV[0] = 0
    /\ PreV[1] = 200
    /\ state.V[0] = 56
    /\ state.V[15] = 0

\* what a second engine, in the state this one was in, ends in when it
\* executes the same opcode and random.randint returns rnd to it
Twin(rnd) == Execute(last.pre, last.opcode, rnd)

----------------------------------------------------------------------------
(* Properties of disassemble *)

Disassembled == last.op = "disassemble"

\* C30: disassemble of an opcode that is none of the documented instruction
\* forms returns "??? $" followed by the four hex digits of the opcode.
C30_UnknownOpcodeText ==
    (Disassembled /\ UndocumentedForm(last.opcode))
        => last.ret = "??? $" \o Hex4(last.opcode)

\* what holds of the code: the undocumented 0NNN and EXNN opcodes get that text
UnknownTextOf0AndE ==
    (Disassembled /\ UndocumentedForm(last.opcode)
                  /\ last.opcode \div 4096 \in {0, 14})
        => last.ret = "??? $" \o Hex4(last.opcode)

----------------------------------------------------------------------------
(* Properties of the front end *)

\* C31: over 60 consecutive frames the driver makes exactly clock_hz calls of
\* cycle(), at each of the selectable clock rates.
C31_CyclesPerSecond ==
    driver.frames = 60 => driver.issued = driver.clock_hz

Stepped == last.op = "step" /\ last.pre.running

\* the engine after one cycle() made with paused off, paused aside
SteppedOnce ==
    LET r == CycleStep([last.pre EXCEPT !.paused = FALSE], 0).cpu IN
    [Cpu EXCEPT !.paused = FALSE] = [r EXCEPT !.paused = FALSE]

----------------------------------------------------------------------------
(* Properties of subroutine calls *)

\* a 00EE that returned from a call
Returned ==
    /\ Executed
    /\ last.opcode = 238
    /\ Len(last.earlier) = 1

\* the call it returned from
ReturnedFrom == last.earlier[1]

\* C33: while subroutines nest at most 16 deep, each 00EE sets PC to the
\* address following the most recent 2NNN that has not returned, and SP to
\* the value it had before that 2NNN.
C33_CallsReturnLastInFirstOut ==
    (Returned /\ ReturnedFrom.within)
        => /\ ~last.raised
           /\ state.PC = ReturnedFrom.ret
           /\ state.SP = ReturnedFrom.sp

\* the outermost of 16 nested calls has returned
C33_Witness ==
    /\ Returned
    /\ ReturnedFrom.within
    /\ last.pre.state.stack[STACK_SIZE - 1] # 0
    /\ ReturnedFrom.sp = 0
    /\ state.SP = 0
    /\ state.PC = PROGRAM_START

\* without the limit on the nesting the pairing is lost
ReturnsAtAnyDepth ==
    Returned => state.PC = ReturnedFrom.ret

----------------------------------------------------------------------------
(* Properties of an engine with no program *)

\* a cycle() made on an engine that is not running
IdleCycle == last.op = "cycle" /\ ~last.pre.running

\* C34: an engine that has loaded no ROM since it was constructed or reset
\* is not running; cycle() changes nothing of it, so that its PC stays at
\* 0x200 and its registers, memory and display stay those of a new engine,
\* whatever keys are pressed.
C34_IdleWithoutRom ==
    /\ IdleCycle => (Cpu = last.pre /\ ~last.fetched /\ ~last.raised)
    /\ ~running =>
        /\ state.PC = PROGRAM_START
        /\ [state EXCEPT !.keys = CPUState.keys] = LoadFontset(CPUState)

\* a cycle() on an engine that is not running and has a key pressed
C34_Witness ==
    /\ IdleCycle
    /\ \E k \in DOMAIN state.keys : state.keys[k]
    /\ state.PC = PROGRAM_START

----------------------------------------------------------------------------
(* Properties of the emulated memory *)

RanF(nn) == ExecutedF(nn)

\* the key-wait branch of cycle, update_timers, key_down and key_up
OtherCall ==
    \/ last.op = "cycle" /\ last.pre.state.waiting_for_key
    \/ last.op \in {"update_timers", "key_down", "key_up"}

MemoryKept == state.memory = last.pre.state.memory

\* the hundreds, tens and ones digit of v
BcdDigit(v, k) ==
    IF k = 0 THEN v \div 100 ELSE IF k = 1 THEN (v \div 10) % 10 ELSE v % 10

\* the bytes FX33 and FX55 are to write at PreI + k
Written(k) == IF RanF(51) THEN BcdDigit(PreV[OpX], k) ELSE PreV[k]

\* the offset of the last byte FX33 and FX55 are to write
WrittenTo == IF RanF(51) THEN 2 ELSE OpX

\* memory is as before but for the bytes at PreI .. PreI + n, which are written
OnlyWritten(n) ==
    \A a \in DOMAIN state.memory \cup DOMAIN last.pre.state.memory
             \cup (PreI .. PreI + n) :
        Byte(state.memory, a) =
            IF a >= PreI /\ a <= PreI + n THEN Written(a - PreI)
            ELSE Byte(last.pre.state.memory, a)

\* C35 as stated: FX33 writes exactly memory[I..I+2] and FX55 exactly
\* memory[I..I+x]; every other opcode, the key-wait capture, update_timers,
\* key_down and key_up leave memory unchanged.
C35_Original ==
    /\ (RanF(51) \/ RanF(85)) => (~last.raised /\ OnlyWritten(WrittenTo))
    /\ (Executed /\ ~RanF(51) /\ ~RanF(85)) => MemoryKept
    /\ OtherCall => MemoryKept

\* C35 amended: that holds when the bytes to write lie within memory; when
\* they pass 0xFFF, FX33 and FX55 write those up to 0xFFF and raise.
C35_MemoryWrittenOnlyByStores ==
    /\ (RanF(51) \/ RanF(85)) =>
          IF PreI + WrittenTo < MEMORY_SIZE
          THEN ~last.raised /\ OnlyWritten(WrittenTo)
          ELSE last.raised /\ OnlyWritten(MEMORY_SIZE - 1 - PreI)
    /\ (Executed /\ ~RanF(51) /\ ~RanF(85)) => MemoryKept
    /\ OtherCall => MemoryKept

\* FX33 wrote the digits 1, 2, 3 of V0 = 123 over the loaded program
C35_Witness ==
    /\ RanF(51)
    /\ PreV[OpX] = 123
    /\ PreI = PROGRAM_START
    /\ Byte(last.pre.state.memory, PROGRAM_START) = 255
    /\ Byte(state.memory, PROGRAM_START) = 1
    /\ Byte(state.memory, PROGRAM_START + 1) = 2
    /\ Byte(state.memory, PROGRAM_START + 2) = 3

====
